---- MODULE Spec2Model ----
(***************************************************************************)
(* A model of the manifest store (gradhouse/arxiv/manifest.py) and of the  *)
(* validation pipeline (gradhouse/arxiv/patterns.py).                      *)
(*                                                                         *)
(* Python strings are TLA+ strings; a Python dict is a function whose      *)
(* DOMAIN is its key set; a Python list is a sequence; a set is a set.     *)
(* A decoded XML leaf value is a tagged value [type, val], so isinstance   *)
(* can be decided.  An exception is an outcome: "return" or the name of    *)
(* the exception class raised.                                             *)
(***************************************************************************)
EXTENDS Integers, Sequences, FiniteSets, TLC

(* Bounds of the model *)
MaxRecords == 2
MaxDiffRecords == 2
MaxMembers == 2

VARIABLES manifest, last, run

vars == <<manifest, last, run>>

(***************************************************************************)
(* Python built-ins used by the code                                       *)
(***************************************************************************)
Char(s, i) == SubSeq(s, i, i)

Digits == {"0", "1", "2", "3", "4", "5", "6", "7", "8", "9"}

DigitValue(c) ==
    CASE c = "0" -> 0 [] c = "1" -> 1 [] c = "2" -> 2 [] c = "3" -> 3
      [] c = "4" -> 4 [] c = "5" -> 5 [] c = "6" -> 6 [] c = "7" -> 7
      [] c = "8" -> 8 [] c = "9" -> 9

DigitChar(d) ==
    CASE d = 0 -> "0" [] d = 1 -> "1" [] d = 2 -> "2" [] d = 3 -> "3"
      [] d = 4 -> "4" [] d = 5 -> "5" [] d = 6 -> "6" [] d = 7 -> "7"
      [] d = 8 -> "8" [] d = 9 -> "9"

\* str.isdigit() on ASCII text
IsDigitString(s) == Len(s) > 0 /\ \A i \in 1..Len(s) : Char(s, i) \in Digits

RECURSIVE DigitsToNat(_)
DigitsToNat(s) ==
    IF Len(s) = 0 THEN 0
    ELSE 10 * DigitsToNat(SubSeq(s, 1, Len(s) - 1)) + DigitValue(Char(s, Len(s)))

\* int(s) returns for an optionally signed run of ASCII digits and raises
\* ValueError for every other text over the alphabet used here.
PyIntParses(s) ==
    IF Len(s) > 0 /\ Char(s, 1) \in {"-", "+"}
    THEN IsDigitString(Tail(s))
    ELSE IsDigitString(s)

PyInt(s) ==
    IF Char(s, 1) = "-" THEN 0 - DigitsToNat(Tail(s))
    ELSE IF Char(s, 1) = "+" THEN DigitsToNat(Tail(s))
    ELSE DigitsToNat(s)

RECURSIVE NatToDigits(_)
NatToDigits(n) ==
    IF n < 10 THEN DigitChar(n)
    ELSE NatToDigits(n \div 10) \o DigitChar(n % 10)

RECURSIVE ZeroPad(_, _)
ZeroPad(s, width) == IF Len(s) >= width THEN s ELSE ZeroPad("0" \o s, width)

\* f"{n:03d}": zero padded to a minimum width of three, the sign included
Format03d(n) ==
    IF n < 0 THEN "-" \o ZeroPad(NatToDigits(0 - n), 2)
    ELSE ZeroPad(NatToDigits(n), 3)

\* s[:2] and s[2:]
SliceTo2(s) == SubSeq(s, 1, IF Len(s) < 2 THEN Len(s) ELSE 2)
SliceFrom2(s) == SubSeq(s, 3, Len(s))

(***************************************************************************)
(* Collaborators of the repository that are not part of the sources        *)
(***************************************************************************)
\* FileName.get_file_basename: the text after the last path separator
LastSlash(path) ==
    LET at == {i \in 1..Len(path) : Char(path, i) = "/"}
    IN  IF at = {} THEN 0 ELSE CHOOSE i \in at : \A j \in at : j <= i

GetFileBasename(path) == SubSeq(path, LastSlash(path) + 1, Len(path))

\* TimeService.is_iso_timestamp_newer: ISO-8601 UTC texts of one format
\* compare chronologically as they compare lexicographically
CharOrd(c) ==
    CASE c \in Digits -> 48 + DigitValue(c)
      [] c = "+" -> 43 [] c = "-" -> 45 [] c = ":" -> 58 [] c = "T" -> 84

IsIsoTimestampNewer(ts1, ts2) ==
    LET n == IF Len(ts1) < Len(ts2) THEN Len(ts1) ELSE Len(ts2)
        diff == {i \in 1..n : Char(ts1, i) # Char(ts2, i)}
    IN  IF diff = {} THEN Len(ts1) > Len(ts2)
        ELSE LET i == CHOOSE k \in diff : \A j \in diff : k <= j
             IN  CharOrd(Char(ts1, i)) > CharOrd(Char(ts2, i))

(***************************************************************************)
(* Decoded XML values                                                      *)
(***************************************************************************)
Str(s) == [type |-> "str", val |-> s]
List(items) == [type |-> "list", val |-> items]
PyNone == [type |-> "NoneType", val |-> ""]

IsStr(v) == v.type = "str"
IsList(v) == v.type = "list"

(***************************************************************************)
(* Manifest: timestamp conversion                                          *)
(***************************************************************************)
\* datetime.strptime(ts, '%a %b %d %H:%M:%S %Y') read as America/New_York,
\* converted to UTC and printed with isoformat(), on the manifest
\* timestamps of the sources below; any other text raises ValueError.
ArxivTimestampParses(timestamp) ==
    timestamp \in {"Mon Jan  6 04:58:03 2025", "Mon Apr  7 04:58:03 2025",
                   "Sun Apr  6 23:58:03 2025"}

ConvertArxivTimestampToIso(timestamp) ==
    CASE timestamp = "Mon Jan  6 04:58:03 2025" -> "2025-01-06T09:58:03+00:00"
      [] timestamp = "Mon Apr  7 04:58:03 2025" -> "2025-04-07T08:58:03+00:00"
      [] timestamp = "Sun Apr  6 23:58:03 2025" -> "2025-04-07T03:58:03+00:00"

\* the same with the format '%Y-%m-%d %H:%M:%S' of the file entries
ArxivFileEntryTimestampParses(timestamp) ==
    timestamp \in {"2010-12-23 00:13:59", "2011-06-01 21:30:00"}

ConvertArxivFileEntryTimestampToIso(timestamp) ==
    CASE timestamp = "2010-12-23 00:13:59" -> "2010-12-23T05:13:59+00:00"
      [] timestamp = "2011-06-01 21:30:00" -> "2011-06-02T01:30:00+00:00"

(***************************************************************************)
(* Manifest: one file entry                                                *)
(***************************************************************************)
\* _is_file_entry_consistent raises ValueError when an int() fails
FileEntryCheckRaises(file_entry) ==
    \/ ~PyIntParses(file_entry.seq_num.val)
    \/ ~PyIntParses(SliceFrom2(file_entry.yymm.val))

GeneratedFilename(file_entry) ==
    "src/arXiv_src_" \o file_entry.yymm.val \o "_"
        \o Format03d(PyInt(file_entry.seq_num.val)) \o ".tar"

\* the month check off by one: month 00 passes
IsFileEntryConsistentMonthZero(file_entry) ==
    LET month == PyInt(SliceFrom2(file_entry.yymm.val))
    IN  /\ file_entry.filename.val = GeneratedFilename(file_entry)
        /\ ~(month < 0 \/ month > 12)

IsFileEntryConsistent(file_entry) ==
    LET month == PyInt(SliceFrom2(file_entry.yymm.val))
    IN  /\ file_entry.filename.val = GeneratedFilename(file_entry)
        /\ ~(month <= 0 \/ month > 12)

\* _process_file_entry returns (TRUE) or raises ValueError (FALSE)
ProcessFileEntryReturns(file_entry) ==
    /\ ~FileEntryCheckRaises(file_entry)
    /\ IsFileEntryConsistent(file_entry)
    /\ PyIntParses(file_entry.size.val)
    /\ ArxivFileEntryTimestampParses(file_entry.timestamp.val)
    /\ PyIntParses(SliceTo2(file_entry.yymm.val))
    /\ PyIntParses(file_entry.num_items.val)

EntryYear(yymm) ==
    IF PyInt(SliceTo2(yymm)) > 90
    THEN PyInt("19" \o SliceTo2(yymm))
    ELSE PyInt("20" \o SliceTo2(yymm))

ProcessFileEntry(file_entry) ==
    [filename        |-> file_entry.filename.val,
     size_bytes      |-> PyInt(file_entry.size.val),
     timestamp_iso   |-> ConvertArxivFileEntryTimestampToIso(file_entry.timestamp.val),
     year            |-> EntryYear(file_entry.yymm.val),
     month           |-> PyInt(SliceFrom2(file_entry.yymm.val)),
     sequence_number |-> PyInt(file_entry.seq_num.val),
     n_submissions   |-> PyInt(file_entry.num_items.val),
     hash            |-> [MD5 |-> file_entry.md5sum.val,
                          MD5_contents |-> file_entry.content_md5sum.val]]

(***************************************************************************)
(* Manifest: the shape of the decoded source                               *)
(***************************************************************************)
ExpectedFileKeys ==
    {"content_md5sum", "filename", "first_item", "last_item", "md5sum",
     "num_items", "seq_num", "size", "timestamp", "yymm"}

\* a decoded value that is a dict: it has keys(), unlike a str, a list or None
IsDict(v) == DOMAIN v # {"type", "val"}

\* _is_arxiv_keys_present raises AttributeError: keys() is called on
\* xml_dict['arXivSRC'] and on every entry of the file list
IsArxivKeysPresentRaises(xml_dict) ==
    /\ DOMAIN xml_dict = {"arXivSRC"}
    /\ \/ ~IsDict(xml_dict.arXivSRC)
       \/ /\ DOMAIN xml_dict.arXivSRC = {"file", "timestamp"}
          /\ IsStr(xml_dict.arXivSRC.timestamp)
          /\ IsList(xml_dict.arXivSRC.file)
          /\ \E i \in 1..Len(xml_dict.arXivSRC.file.val) :
                ~IsDict(xml_dict.arXivSRC.file.val[i])

IsArxivKeysPresent(xml_dict) ==
    /\ DOMAIN xml_dict = {"arXivSRC"}
    /\ DOMAIN xml_dict.arXivSRC = {"file", "timestamp"}
    /\ IsStr(xml_dict.arXivSRC.timestamp)
    /\ IsList(xml_dict.arXivSRC.file)
    /\ LET files == xml_dict.arXivSRC.file.val
       IN  /\ \A i \in 1..Len(files) : DOMAIN files[i] = ExpectedFileKeys
           /\ \A i \in 1..Len(files) : \A k \in DOMAIN files[i] : IsStr(files[i][k])

(***************************************************************************)
(* Manifest: the store                                                     *)
(***************************************************************************)
Ids == {"A", "B"}

\* _set_defaults: {'metadata': {}, 'contents': dict()}
Defaults == [metadata |-> <<>>, contents |-> <<>>]

Returned(v) == [outcome |-> "return", value |-> v]
Raised(e) == [outcome |-> e, value |-> {}]

ListKeys(m) == DOMAIN m.contents

\* the loop storing every entry under its key, a later one over an earlier
RECURSIVE ImportEntriesOverwriting(_, _, _)
ImportEntriesOverwriting(contents, files, i) ==
    IF i > Len(files)
    THEN [contents |-> contents, outcome |-> "return", at |-> 0]
    ELSE IF ~ProcessFileEntryReturns(files[i])
    THEN [contents |-> contents, outcome |-> "ValueError", at |-> i]
    ELSE LET entry == ProcessFileEntry(files[i])
             base_filename == GetFileBasename(entry.filename)
         IN  ImportEntriesOverwriting(
                 [key \in DOMAIN contents \cup {base_filename} |->
                     IF key = base_filename THEN entry ELSE contents[key]],
                 files, i + 1)

\* the loop of import_arxiv_xml over xml_dict['arXivSRC']['file']: the
\* contents reached, the outcome, and the record at which it stopped
RECURSIVE ImportEntries(_, _, _)
ImportEntries(contents, files, i) ==
    IF i > Len(files)
    THEN [contents |-> contents, outcome |-> "return", at |-> 0]
    ELSE IF ~ProcessFileEntryReturns(files[i])
    THEN [contents |-> contents, outcome |-> "ValueError", at |-> i]
    ELSE LET entry == ProcessFileEntry(files[i])
             base_filename == GetFileBasename(entry.filename)
         IN  IF base_filename \notin DOMAIN contents
             THEN ImportEntries(contents @@ (base_filename :> entry), files, i + 1)
             ELSE [contents |-> contents, outcome |-> "KeyError", at |-> i]

\* import_arxiv_xml on a source: the store it leaves and its outcome
ImportOf(source) ==
    IF ~source.is_file
    THEN [manifest |-> Defaults, outcome |-> "FileNotFoundError", at |-> 0]
    ELSE IF ~source.is_xml_format
    THEN [manifest |-> Defaults, outcome |-> "TypeError", at |-> 0]
    ELSE IF IsArxivKeysPresentRaises(source.xml_dict)
    THEN [manifest |-> Defaults, outcome |-> "AttributeError", at |-> 0]
    ELSE IF ~IsArxivKeysPresent(source.xml_dict)
    THEN [manifest |-> Defaults, outcome |-> "TypeError", at |-> 0]
    ELSE IF ~ArxivTimestampParses(source.xml_dict.arXivSRC.timestamp.val)
    THEN [manifest |-> Defaults, outcome |-> "ValueError", at |-> 0]
    ELSE LET iso == ConvertArxivTimestampToIso(source.xml_dict.arXivSRC.timestamp.val)
             loop == ImportEntries(<<>>, source.xml_dict.arXivSRC.file.val, 1)
         IN  [manifest |-> [metadata |-> ("manifest_timestamp_iso" :> iso),
                            contents |-> loop.contents],
              outcome |-> loop.outcome,
              at |-> loop.at]

HasTimestamp(m) == "manifest_timestamp_iso" \in DOMAIN m.metadata

\* is_newer_than without the deleted-entries check on the side of other
IsNewerThanNoDeletionCheck(m, other) ==
    IF ~HasTimestamp(m) \/ ~HasTimestamp(other) THEN Raised("KeyError")
    ELSE
    LET iso_timestamp1 == m.metadata["manifest_timestamp_iso"]
        iso_timestamp2 == other.metadata["manifest_timestamp_iso"]
        in_current_only == ListKeys(m) \ ListKeys(other)
        in_other_only == ListKeys(other) \ ListKeys(m)
    IN  IF iso_timestamp1 = iso_timestamp2
        THEN IF in_current_only # {} \/ in_other_only # {}
             THEN Raised("ValueError") ELSE Returned(FALSE)
        ELSE IF IsIsoTimestampNewer(iso_timestamp1, iso_timestamp2)
             THEN IF in_current_only = {} \/ in_other_only # {}
                  THEN Raised("ValueError") ELSE Returned(TRUE)
             ELSE IF in_other_only = {}
                  THEN Raised("ValueError") ELSE Returned(FALSE)

\* is_newer_than with the arguments of the timestamp comparison swapped
IsNewerThanSwapped(m, other) ==
    IF ~HasTimestamp(m) \/ ~HasTimestamp(other) THEN Raised("KeyError")
    ELSE
    LET iso_timestamp1 == m.metadata["manifest_timestamp_iso"]
        iso_timestamp2 == other.metadata["manifest_timestamp_iso"]
        in_current_only == ListKeys(m) \ ListKeys(other)
        in_other_only == ListKeys(other) \ ListKeys(m)
    IN  IF iso_timestamp1 = iso_timestamp2
        THEN IF in_current_only # {} \/ in_other_only # {}
             THEN Raised("ValueError") ELSE Returned(FALSE)
        ELSE IF IsIsoTimestampNewer(iso_timestamp2, iso_timestamp1)
             THEN IF in_current_only = {} \/ in_other_only # {}
                  THEN Raised("ValueError") ELSE Returned(TRUE)
             ELSE IF in_other_only = {} \/ in_current_only # {}
                  THEN Raised("ValueError") ELSE Returned(FALSE)

\* is_newer_than answering False for an older snapshot without looking at
\* the keys
IsNewerThanUncheckedWhenOlder(m, other) ==
    IF ~HasTimestamp(m) \/ ~HasTimestamp(other) THEN Raised("KeyError")
    ELSE
    LET iso_timestamp1 == m.metadata["manifest_timestamp_iso"]
        iso_timestamp2 == other.metadata["manifest_timestamp_iso"]
        files_in_current_but_not_in_other == ListKeys(m) \ ListKeys(other)
        files_in_other_but_not_in_current == ListKeys(other) \ ListKeys(m)
    IN  IF iso_timestamp1 = iso_timestamp2
        THEN IF \/ Cardinality(files_in_current_but_not_in_other) > 0
                \/ Cardinality(files_in_other_but_not_in_current) > 0
             THEN Raised("ValueError")
             ELSE Returned(FALSE)
        ELSE IF IsIsoTimestampNewer(iso_timestamp1, iso_timestamp2)
             THEN IF Cardinality(files_in_current_but_not_in_other) = 0
                  THEN Raised("ValueError")
                  ELSE IF Cardinality(files_in_other_but_not_in_current) > 0
                  THEN Raised("ValueError")
                  ELSE Returned(TRUE)
             ELSE Returned(FALSE)

\* is_newer_than: a missing 'manifest_timestamp_iso' is a KeyError of the
\* dictionary lookup
IsNewerThan(m, other) ==
    IF ~HasTimestamp(m) \/ ~HasTimestamp(other) THEN Raised("KeyError")
    ELSE
    LET iso_timestamp1 == m.metadata["manifest_timestamp_iso"]
        iso_timestamp2 == other.metadata["manifest_timestamp_iso"]
        current_keys == ListKeys(m)
        other_keys == ListKeys(other)
        common_keys == current_keys \cap other_keys
        files_in_current_but_not_in_other == current_keys \ common_keys
        files_in_other_but_not_in_current == other_keys \ common_keys
    IN  IF iso_timestamp1 = iso_timestamp2
        THEN IF \/ Cardinality(files_in_current_but_not_in_other) > 0
                \/ Cardinality(files_in_other_but_not_in_current) > 0
             THEN Raised("ValueError")
             ELSE Returned(FALSE)
        ELSE LET is_timestamp_newer == IsIsoTimestampNewer(iso_timestamp1, iso_timestamp2)
             IN  IF is_timestamp_newer
                 THEN IF Cardinality(files_in_current_but_not_in_other) = 0
                      THEN Raised("ValueError")
                      ELSE IF Cardinality(files_in_other_but_not_in_current) > 0
                      THEN Raised("ValueError")
                      ELSE Returned(is_timestamp_newer)
                 ELSE IF Cardinality(files_in_other_but_not_in_current) = 0
                      THEN Raised("ValueError")
                      ELSE IF Cardinality(files_in_current_but_not_in_other) > 0
                      THEN Raised("ValueError")
                      ELSE Returned(is_timestamp_newer)

\* find_new_entries without the ordering check
FindNewEntriesUnordered(m, reference) ==
    LET newer == IsNewerThan(m, reference)
    IN  IF newer.outcome # "return" THEN newer
        ELSE Returned(ListKeys(m) \ ListKeys(reference))

\* find_new_entries that forgets to subtract the reference keys
FindNewEntriesAllKeys(m, reference) ==
    LET newer == IsNewerThan(m, reference)
    IN  IF newer.outcome # "return" THEN newer
        ELSE IF ~newer.value THEN Raised("ValueError")
        ELSE Returned(ListKeys(m))

\* find_updated_entries comparing the whole entry instead of hash['MD5']
FindUpdatedEntriesWholeEntry(m, reference) ==
    LET newer == IsNewerThan(m, reference)
    IN  IF newer.outcome # "return" THEN newer
        ELSE IF ~newer.value THEN Raised("ValueError")
        ELSE Returned({key \in ListKeys(m) \cap ListKeys(reference) :
                         m.contents[key] # reference.contents[key]})

FindNewEntries(m, reference) ==
    LET newer == IsNewerThan(m, reference)
    IN  IF newer.outcome # "return" THEN newer
        ELSE IF ~newer.value THEN Raised("ValueError")
        ELSE LET current_keys == ListKeys(m)
                 reference_keys == ListKeys(reference)
             IN  Returned(current_keys \ reference_keys)

FindUpdatedEntries(m, reference) ==
    LET newer == IsNewerThan(m, reference)
    IN  IF newer.outcome # "return" THEN newer
        ELSE IF ~newer.value THEN Raised("ValueError")
        ELSE LET current_keys == ListKeys(m)
                 reference_keys == ListKeys(reference)
                 common_keys == current_keys \cap reference_keys
             IN  Returned({key \in common_keys :
                             m.contents[key].hash.MD5 # reference.contents[key].hash.MD5})

\* the total of a field over the entries stored under the keys
RECURSIVE SumOf(_, _, _)
SumOf(contents, keys, field) ==
    IF keys = {} THEN 0
    ELSE LET key == CHOOSE k \in keys : TRUE
         IN  contents[key][field] + SumOf(contents, keys \ {key}, field)

\* get_statistics: a new dict keyed by (year, month) with the totals of
\* size_bytes and n_submissions
GetStatistics(m) ==
    LET groups == {<<m.contents[k].year, m.contents[k].month>> : k \in DOMAIN m.contents}
    IN  [key \in groups |->
            LET members == {k \in DOMAIN m.contents :
                              <<m.contents[k].year, m.contents[k].month>> = key}
            IN  [size_bytes |-> SumOf(m.contents, members, "size_bytes"),
                 n_submissions |-> SumOf(m.contents, members, "n_submissions")]]

(***************************************************************************)
(* Sources offered to import_arxiv_xml                                     *)
(***************************************************************************)
FileRecord(filename, yymm, seq_num, md5sum, content_md5sum, size, timestamp) ==
    [content_md5sum |-> Str(content_md5sum),
     filename       |-> Str(filename),
     first_item     |-> Str("astro-ph0001001"),
     last_item      |-> Str("quant-ph0001119"),
     md5sum         |-> Str(md5sum),
     num_items      |-> Str("2364"),
     seq_num        |-> Str(seq_num),
     size           |-> Str(size),
     timestamp      |-> Str(timestamp),
     yymm           |-> Str(yymm)]

RecA == FileRecord("src/arXiv_src_9902_005.tar", "9902", "5", "md5-a", "cmd5-a", "100", "2010-12-23 00:13:59")
RecAChanged == FileRecord("src/arXiv_src_9902_005.tar", "9902", "5", "md5-b", "cmd5-b", "120", "2011-06-01 21:30:00")
RecATouched == FileRecord("src/arXiv_src_9902_005.tar", "9902", "005", "md5-a", "cmd5-c", "130", "2011-06-01 21:30:00")
RecB == FileRecord("src/arXiv_src_0001_001.tar", "0001", "1", "md5-d", "cmd5-d", "200", "2010-12-23 00:13:59")
RecBadName == FileRecord("src/arXiv_src_0001_002.tar", "0001", "1", "md5-e", "cmd5-e", "200", "2010-12-23 00:13:59")
RecMonth13 == FileRecord("src/arXiv_src_9913_005.tar", "9913", "5", "md5-f", "cmd5-f", "300", "2010-12-23 00:13:59")
RecMonth00 == FileRecord("src/arXiv_src_9900_005.tar", "9900", "5", "md5-g", "cmd5-g", "300", "2010-12-23 00:13:59")
RecOtherDir == FileRecord("old/arXiv_src_9902_005.tar", "9902", "5", "md5-a", "cmd5-a", "100", "2010-12-23 00:13:59")
RecLongYymm == FileRecord("src/arXiv_src_99002_005.tar", "99002", "5", "md5-h", "cmd5-h", "100", "2010-12-23 00:13:59")

DiffRecords == {RecA, RecAChanged, RecATouched, RecB}
ImportRecords == {RecA, RecAChanged, RecB, RecBadName, RecMonth13, RecMonth00, RecOtherDir, RecLongYymm}

DiffTimestamps == {"Mon Jan  6 04:58:03 2025", "Mon Apr  7 04:58:03 2025", "Sun Apr  6 23:58:03 2025"}
ImportTimestamps == {"Mon Apr  7 04:58:03 2025", "2025-04-07 04:58:03"}

SeqsUpTo(S, n) == UNION {[1..k -> S] : k \in 0..n}

XmlDict(timestamp, files) ==
    [arXivSRC |-> [timestamp |-> Str(timestamp), file |-> List(files)]]

Source(is_file, is_xml_format, xml_dict) ==
    [is_file |-> is_file, is_xml_format |-> is_xml_format, xml_dict |-> xml_dict]

DiffSources ==
    {Source(TRUE, TRUE, XmlDict(p[1], p[2])) :
        p \in DiffTimestamps \X SeqsUpTo(DiffRecords, MaxDiffRecords)}

\* a source whose file is missing, or is no XML, is never decoded
Undecoded == XmlDict("", <<>>)

\* decoded sources of a wrong shape
ExtraKeyRecord == RecA @@ ("extra" :> Str("x"))
MissingKeyRecord == [k \in ExpectedFileKeys \ {"last_item"} |-> RecA[k]]
NoneValueRecord == [RecA EXCEPT !.size = PyNone]

MisshapenDicts ==
    {XmlDict("Mon Apr  7 04:58:03 2025", <<RecB, r>>) :
        r \in {ExtraKeyRecord, MissingKeyRecord, NoneValueRecord}}
    \cup {[arXivSRC |-> [timestamp |-> Str("Mon Apr  7 04:58:03 2025"), file |-> PyNone]],
          [arXivSRC |-> [timestamp |-> PyNone, file |-> List(<<RecB>>)]],
          [arXivSRC |-> [timestamp |-> Str("Mon Apr  7 04:58:03 2025")]],
          [manifest |-> [timestamp |-> Str("Mon Apr  7 04:58:03 2025"), file |-> List(<<RecB>>)]],
          [arXivSRC |-> PyNone],
          XmlDict("Mon Apr  7 04:58:03 2025", <<RecB, PyNone>>),
          XmlDict("Mon Apr  7 04:58:03 2025", <<MissingKeyRecord, Str("text")>>)}

ImportSources ==
    {Source(TRUE, TRUE, XmlDict(p[1], p[2])) :
        p \in ImportTimestamps \X SeqsUpTo(ImportRecords, MaxRecords)}
    \cup {Source(TRUE, TRUE, d) : d \in MisshapenDicts}
    \cup {Source(FALSE, FALSE, Undecoded), Source(TRUE, FALSE, Undecoded)}

(***************************************************************************)
(* Patterns: the naming grammars                                           *)
(***************************************************************************)
LowerCase ==
    {"a", "b", "c", "d", "e", "f", "g", "h", "i", "j", "k", "l", "m",
     "n", "o", "p", "q", "r", "s", "t", "u", "v", "w", "x", "y", "z"}

AllIn(s, chars) == \A i \in 1..Len(s) : Char(s, i) \in chars

\* what a pattern ending in $ may have consumed of s under re.match: all
\* of s, or all but one final line terminator
BeforeDollar(s) ==
    IF Len(s) > 0 /\ Char(s, Len(s)) = "\n"
    THEN {s, SubSeq(s, 1, Len(s) - 1)}
    ELSE {s}

\* os.path.splitext on a base name: split at the last dot, unless only
\* dots stand before it
LastDot(name) ==
    LET at == {i \in 1..Len(name) : Char(name, i) = "."}
    IN  IF at = {} THEN 0 ELSE CHOOSE i \in at : \A j \in at : j <= i

SplitExt(name) ==
    LET dot == LastDot(name)
    IN  IF dot = 0 \/ AllIn(SubSeq(name, 1, dot - 1), {"."})
        THEN <<name, "">>
        ELSE <<SubSeq(name, 1, dot - 1), SubSeq(name, dot, Len(name))>>

\* the no-match result None
NoMatch == <<>>

\* r'^arXiv_src_(\d{2})(\d{2})_(\d{3})\.tar$'
MatchesBulkArchive(t) ==
    /\ Len(t) = 22
    /\ SubSeq(t, 1, 10) = "arXiv_src_"
    /\ AllIn(SubSeq(t, 11, 14), Digits)
    /\ Char(t, 15) = "_"
    /\ AllIn(SubSeq(t, 16, 18), Digits)
    /\ SubSeq(t, 19, 22) = ".tar"

\* the pattern matched against the whole path, not its base name
ParseBulkArchiveFilenameWholePath(filename) ==
    LET matched == {t \in BeforeDollar(filename) : MatchesBulkArchive(t)}
    IN  IF matched = {} THEN NoMatch
        ELSE LET t == CHOOSE u \in matched : TRUE
             IN  <<SubSeq(t, 11, 12), SubSeq(t, 13, 14), SubSeq(t, 16, 18)>>

ParseBulkArchiveFilename(filename) ==
    LET basename == GetFileBasename(filename)
        matched == {t \in BeforeDollar(basename) : MatchesBulkArchive(t)}
    IN  IF matched = {} THEN NoMatch
        ELSE LET t == CHOOSE u \in matched : TRUE
             IN  <<SubSeq(t, 11, 12), SubSeq(t, 13, 14), SubSeq(t, 16, 18)>>

IsBulkArchiveFilename(filename) ==
    LET parts == ParseBulkArchiveFilename(filename)
    IN  IF parts # NoMatch
        THEN IsDigitString(parts[2]) /\ 1 <= PyInt(parts[2]) /\ PyInt(parts[2]) <= 12
        ELSE FALSE

\* r'^([a-z\-]+)(\d{2})(\d{2})(\d{3})$': the seven digits end the text and
\* no digit is a category character, so the split is unique
MatchesOldStyle(t) ==
    /\ Len(t) >= 8
    /\ AllIn(SubSeq(t, 1, Len(t) - 7), LowerCase \cup {"-"})
    /\ AllIn(SubSeq(t, Len(t) - 6, Len(t)), Digits)

ParseOldStyleSubmissionFilename(filename) ==
    LET basename == GetFileBasename(filename)
        basename_no_ext == SplitExt(basename)[1]
        ext == SplitExt(basename)[2]
        matched == {t \in BeforeDollar(basename_no_ext) : MatchesOldStyle(t)}
    IN  IF ext \in {".gz", ".pdf"} /\ matched # {}
        THEN LET t == CHOOSE u \in matched : TRUE
                 n == Len(t)
             IN  <<SubSeq(t, 1, n - 7), SubSeq(t, n - 6, n - 5),
                   SubSeq(t, n - 4, n - 3), SubSeq(t, n - 2, n)>>
        ELSE NoMatch

\* a current-style pattern that accepts any text before seven final digits
MatchesCurrentStyleAnyPrefix(t) ==
    /\ Len(t) >= 7
    /\ AllIn(SubSeq(t, Len(t) - 6, Len(t)), Digits)

\* r'^(\d{2})(\d{2})\.(\d{4,5})$'
MatchesCurrentStyle(t) ==
    /\ Len(t) \in {9, 10}
    /\ AllIn(SubSeq(t, 1, 4), Digits)
    /\ Char(t, 5) = "."
    /\ AllIn(SubSeq(t, 6, Len(t)), Digits)

ParseCurrentStyleSubmissionFilename(filename) ==
    LET basename == GetFileBasename(filename)
        basename_no_ext == SplitExt(basename)[1]
        ext == SplitExt(basename)[2]
        matched == {t \in BeforeDollar(basename_no_ext) : MatchesCurrentStyle(t)}
    IN  IF ext \in {".gz", ".pdf"} /\ matched # {}
        THEN LET t == CHOOSE u \in matched : TRUE
             IN  <<SubSeq(t, 1, 2), SubSeq(t, 3, 4), SubSeq(t, 6, Len(t))>>
        ELSE NoMatch

IsSubmissionFilename(filename) ==
    LET old == ParseOldStyleSubmissionFilename(filename)
        current == ParseCurrentStyleSubmissionFilename(filename)
    IN  IF old # NoMatch
        THEN IsDigitString(old[3]) /\ 1 <= PyInt(old[3]) /\ PyInt(old[3]) <= 12
        ELSE IF current # NoMatch
        THEN /\ IsDigitString(current[2])
             /\ 1 <= PyInt(current[2]) /\ PyInt(current[2]) <= 12
        ELSE FALSE

\* the URI built from the path as given, not from its base name
GenerateUriForBulkArchiveFilenameWholePath(filename) ==
    IF ~IsBulkArchiveFilename(filename)
    THEN [outcome |-> "ValueError", value |-> {}]
    ELSE [outcome |-> "return", value |-> "s3://arxiv/src/" \o filename]

GenerateUriForBulkArchiveFilename(filename) ==
    LET base_uri == "s3://arxiv/src/"
    IN  IF ~IsBulkArchiveFilename(filename)
        THEN [outcome |-> "ValueError", value |-> {}]
        ELSE [outcome |-> "return", value |-> base_uri \o GetFileBasename(filename)]

GenerateUrlForSubmissionFilename(filename) ==
    LET base_url == "https://arxiv.org/abs/"
        old == ParseOldStyleSubmissionFilename(filename)
        current == ParseCurrentStyleSubmissionFilename(filename)
    IN  IF old # NoMatch
        THEN [outcome |-> "return",
              value |-> base_url \o old[1] \o "/" \o old[2] \o old[3] \o old[4]]
        ELSE IF current # NoMatch
        THEN [outcome |-> "return",
              value |-> base_url \o current[1] \o current[2] \o "." \o current[3]]
        ELSE [outcome |-> "ValueError", value |-> {}]

(***************************************************************************)
(* Patterns.check_bulk_archive, one step for each of its five stages       *)
(***************************************************************************)
TAR == "FILE_TYPE_ARCHIVE_TAR"
GZ == "FILE_TYPE_ARCHIVE_GZ"
PDF == "FILE_TYPE_PDF"
UNKNOWN == "FILE_TYPE_UNKNOWN"

\* what the collaborators may answer
ExtensionAnswers == {{}, {TAR}, {GZ}, {TAR, GZ}}
FormatAnswers == {TAR, GZ, PDF, UNKNOWN}
ExtractAnswers == {<<>>, <<"path traversal: ../x">>,
                   <<"absolute path: /etc/x", "name collision: a">>}
MemberNames == {"1202.3054.gz", "cond-mat9602101.gz", "not_a_submission.txt",
                "1213.3054.pdf"}
ContentsAnswers == SeqsUpTo(MemberNames, MaxMembers)

BulkPaths == {"arXiv_src_9902_005.tar", "/tmp/arXiv_src_0001_001.tar",
              "arXiv_src_9913_005.tar", "arXiv_src_9902_005.tgz"}

RECURSIVE Join(_, _)
Join(sep, items) ==
    IF Len(items) = 0 THEN ""
    ELSE IF Len(items) = 1 THEN items[1]
    ELSE items[1] \o sep \o Join(sep, Tail(items))

Idle ==
    [op |-> "none", pc |-> "idle", file_path |-> "", error_list |-> <<>>,
     origin |-> <<>>, calls |-> <<>>, answers |-> <<>>]

\* error_list.append / extend by a stage; origin notes the appending stage
AddErrors(r, stage, messages) ==
    [r EXCEPT !.error_list = @ \o messages,
              !.origin = @ \o [i \in 1..Len(messages) |-> stage]]

\* a collaborator is invoked and answers
Invoke(r, collaborator, answer) ==
    [r EXCEPT !.calls = Append(@, collaborator), !.answers = Append(@, answer)]

At(r, pc) == [r EXCEPT !.pc = pc]

BulkCall(file_path) ==
    /\ run.pc \in {"idle", "done"}
    /\ run' = [Idle EXCEPT !.op = "check_bulk_archive", !.pc = "pattern",
                           !.file_path = file_path]
    /\ UNCHANGED <<manifest, last>>

BulkPattern ==
    /\ run.op = "check_bulk_archive" /\ run.pc = "pattern"
    /\ run' = At(IF ~IsBulkArchiveFilename(run.file_path)
                 THEN AddErrors(run, 1, <<"Filename " \o run.file_path
                                           \o " does not match bulk archive pattern">>)
                 ELSE run, "exists")
    /\ UNCHANGED <<manifest, last>>

BulkExists ==
    /\ run.op = "check_bulk_archive" /\ run.pc = "exists"
    /\ IF run.error_list = <<>>
       THEN \E is_file \in BOOLEAN :
               LET r == Invoke(run, "FileSystem.is_file", is_file)
               IN  run' = At(IF ~is_file
                             THEN AddErrors(r, 2, <<"File " \o run.file_path \o " not found">>)
                             ELSE r, "type")
       ELSE run' = At(run, "type")
    /\ UNCHANGED <<manifest, last>>

\* stage 3 with two independent ifs in place of if / elif
BulkTypeAccumulating ==
    /\ run.op = "check_bulk_archive" /\ run.pc = "type"
    /\ IF run.error_list = <<>>
       THEN \E by_extension \in ExtensionAnswers : \E by_format \in FormatAnswers :
               LET r == Invoke(Invoke(run, "FileHandler.get_file_type_from_extension",
                                      by_extension),
                               "FileHandler.get_file_type_from_format", by_format)
               IN  run' = At(AddErrors(r, 3,
                                (IF TAR \notin by_extension
                                 THEN <<"File extension is not tar">> ELSE <<>>)
                                \o (IF TAR # by_format
                                    THEN <<"File format is not tar">> ELSE <<>>)),
                             "extract")
       ELSE run' = At(run, "extract")
    /\ UNCHANGED <<manifest, last>>

BulkType ==
    /\ run.op = "check_bulk_archive" /\ run.pc = "type"
    /\ IF run.error_list = <<>>
       THEN \E by_extension \in ExtensionAnswers : \E by_format \in FormatAnswers :
               LET r == Invoke(run, "FileHandler.get_file_type_from_extension", by_extension)
               IN  run' = At(IF TAR \notin by_extension
                             THEN AddErrors(r, 3, <<"File extension is not tar">>)
                             ELSE LET q == Invoke(r, "FileHandler.get_file_type_from_format",
                                                  by_format)
                                  IN  IF TAR # by_format
                                      THEN AddErrors(q, 3, <<"File format is not tar">>)
                                      ELSE q,
                             "extract")
       ELSE run' = At(run, "extract")
    /\ UNCHANGED <<manifest, last>>

\* stage 4 without its 'if not error_list'
BulkExtractUnguarded ==
    /\ run.op = "check_bulk_archive" /\ run.pc = "extract"
    /\ \E archive_errors \in ExtractAnswers :
          run' = At(AddErrors(Invoke(run, "ArchiveHandler.check_extract_possible",
                                     archive_errors),
                              4, archive_errors), "contents")
    /\ UNCHANGED <<manifest, last>>

BulkExtract ==
    /\ run.op = "check_bulk_archive" /\ run.pc = "extract"
    /\ IF run.error_list = <<>>
       THEN \E archive_errors \in ExtractAnswers :
               run' = At(AddErrors(Invoke(run, "ArchiveHandler.check_extract_possible",
                                          archive_errors),
                                   4, archive_errors), "contents")
       ELSE run' = At(run, "contents")
    /\ UNCHANGED <<manifest, last>>

\* the comprehension stopping at the first entry it keeps
RECURSIVE InvalidEntriesFirstOnly(_)
InvalidEntriesFirstOnly(archive_contents) ==
    IF Len(archive_contents) = 0 THEN <<>>
    ELSE IF ~IsSubmissionFilename(archive_contents[1])
    THEN <<archive_contents[1]>>
    ELSE InvalidEntriesFirstOnly(Tail(archive_contents))

\* [entry for entry in archive_contents if not is_submission_filename(entry)]
RECURSIVE InvalidEntries(_)
InvalidEntries(archive_contents) ==
    IF Len(archive_contents) = 0 THEN <<>>
    ELSE (IF ~IsSubmissionFilename(archive_contents[1])
          THEN <<archive_contents[1]>> ELSE <<>>)
         \o InvalidEntries(Tail(archive_contents))

BulkContents ==
    /\ run.op = "check_bulk_archive" /\ run.pc = "contents"
    /\ IF run.error_list = <<>>
       THEN \E archive_contents \in ContentsAnswers :
               LET r == Invoke(run, "ArchiveHandler.list_contents", archive_contents)
                   invalid_entries == InvalidEntries(archive_contents)
               IN  run' = At(IF invalid_entries # <<>>
                             THEN AddErrors(r, 5,
                                    <<"Archive entries do not match submission filename pattern: "
                                      \o Join(", ", invalid_entries)>>)
                             ELSE r, "done")
       ELSE run' = At(run, "done")
    /\ UNCHANGED <<manifest, last>>

BulkNext ==
    \/ \E file_path \in BulkPaths : BulkCall(file_path)
    \/ BulkPattern
    \/ BulkExists
    \/ BulkType
    \/ BulkExtract
    \/ BulkContents

(***************************************************************************)
(* Patterns.check_submission, one step for each of its stages              *)
(***************************************************************************)
TGZ == "FILE_TYPE_ARCHIVE_TGZ"

allowed_file_types == {GZ, TGZ, PDF}
allowed_archive_file_types == {GZ, TGZ}

\* FileType.value, the text that names a file type in a message
FileTypeValue(file_type) == file_type

\* what the collaborators may answer for a document
SubmissionExtensionAnswers == {{}, {TAR}, {GZ}, {TGZ}, {PDF}, {GZ, TGZ}, {TAR, GZ}}
SubmissionFormatAnswers == {TAR, GZ, TGZ, PDF, UNKNOWN}

SubmissionPaths == {"1202.3054.gz", "/tmp/cond-mat9602101.pdf", "1213.3054.gz",
                    "1202.3054.tgz"}

\* the value a collaborator returned earlier in the call
Answered(r, collaborator) ==
    r.answers[CHOOSE i \in 1..Len(r.calls) : r.calls[i] = collaborator]

SubmissionCall(file_path) ==
    /\ run.pc \in {"idle", "done"}
    /\ run' = [Idle EXCEPT !.op = "check_submission", !.pc = "pattern",
                           !.file_path = file_path]
    /\ UNCHANGED <<manifest, last>>

SubmissionPattern ==
    /\ run.op = "check_submission" /\ run.pc = "pattern"
    /\ run' = At(IF ~IsSubmissionFilename(run.file_path)
                 THEN AddErrors(run, 1, <<"Filename " \o run.file_path
                                           \o " does not match submission pattern">>)
                 ELSE run, "exists")
    /\ UNCHANGED <<manifest, last>>

SubmissionExists ==
    /\ run.op = "check_submission" /\ run.pc = "exists"
    /\ IF run.error_list = <<>>
       THEN \E is_file \in BOOLEAN :
               LET r == Invoke(run, "FileSystem.is_file", is_file)
               IN  run' = At(IF ~is_file
                             THEN AddErrors(r, 2, <<"File " \o run.file_path \o " not found">>)
                             ELSE r, "type")
       ELSE run' = At(run, "type")
    /\ UNCHANGED <<manifest, last>>

\* stage 3 with three independent ifs in place of if / elif / elif
SubmissionTypeAccumulating ==
    /\ run.op = "check_submission" /\ run.pc = "type"
    /\ IF run.error_list = <<>>
       THEN \E file_types_by_extension \in SubmissionExtensionAnswers :
            \E file_type_by_format \in SubmissionFormatAnswers :
               LET r == Invoke(Invoke(run, "FileHandler.get_file_type_from_extension",
                                      file_types_by_extension),
                               "FileHandler.get_file_type_from_format", file_type_by_format)
               IN  run' = At(AddErrors(r, 3,
                                (IF file_types_by_extension \cap allowed_file_types = {}
                                 THEN <<"File extension type is not allowed">> ELSE <<>>)
                                \o (IF file_type_by_format \notin allowed_file_types
                                    THEN <<"File type " \o FileTypeValue(file_type_by_format)
                                           \o " not allowed">> ELSE <<>>)
                                \o (IF file_type_by_format \notin file_types_by_extension
                                    THEN <<"File format does not match file extension">>
                                    ELSE <<>>)),
                             "extract")
       ELSE run' = At(run, "extract")
    /\ UNCHANGED <<manifest, last>>

SubmissionType ==
    /\ run.op = "check_submission" /\ run.pc = "type"
    /\ IF run.error_list = <<>>
       THEN \E file_types_by_extension \in SubmissionExtensionAnswers :
            \E file_type_by_format \in SubmissionFormatAnswers :
               LET r == Invoke(Invoke(run, "FileHandler.get_file_type_from_extension",
                                      file_types_by_extension),
                               "FileHandler.get_file_type_from_format", file_type_by_format)
               IN  run' = At(IF ~(\E file_type \in file_types_by_extension :
                                     file_type \in allowed_file_types)
                             THEN AddErrors(r, 3, <<"File extension type is not allowed">>)
                             ELSE IF file_type_by_format \notin allowed_file_types
                             THEN AddErrors(r, 3, <<"File type "
                                                    \o FileTypeValue(file_type_by_format)
                                                    \o " not allowed">>)
                             ELSE IF file_type_by_format \notin file_types_by_extension
                             THEN AddErrors(r, 3, <<"File format does not match file extension">>)
                             ELSE r,
                             "extract")
       ELSE run' = At(run, "extract")
    /\ UNCHANGED <<manifest, last>>

\* the extractability check made whatever the sniffed type
SubmissionExtractAnyType ==
    /\ run.op = "check_submission" /\ run.pc = "extract"
    /\ IF run.error_list = <<>>
       THEN \E archive_errors \in ExtractAnswers :
               run' = At(AddErrors(Invoke(run, "ArchiveHandler.check_extract_possible",
                                          archive_errors),
                                   4, archive_errors), "done")
       ELSE run' = At(run, "done")
    /\ UNCHANGED <<manifest, last>>

\* the last if of the type block: it is reached with an empty error_list
\* only when the block was entered, so file_type_by_format is bound
SubmissionExtract ==
    /\ run.op = "check_submission" /\ run.pc = "extract"
    /\ IF /\ run.error_list = <<>>
          /\ Answered(run, "FileHandler.get_file_type_from_format")
                \in allowed_archive_file_types
       THEN \E archive_errors \in ExtractAnswers :
               run' = At(AddErrors(Invoke(run, "ArchiveHandler.check_extract_possible",
                                          archive_errors),
                                   4, archive_errors), "done")
       ELSE run' = At(run, "done")
    /\ UNCHANGED <<manifest, last>>

SubmissionNext ==
    \/ \E file_path \in SubmissionPaths : SubmissionCall(file_path)
    \/ SubmissionPattern
    \/ SubmissionExists
    \/ SubmissionType
    \/ SubmissionExtract

(***************************************************************************)
(* The naming functions of Patterns applied to one filename                *)
(***************************************************************************)
\* filenames put together from parts, so that every part is varied alone
Directories == {"", "/tmp/"}
Months == {"00", "01", "12", "13", "99", "1x"}

BulkNames ==
    {d \o prefix \o yy \o mm \o "_" \o seq \o ending :
        d \in Directories, prefix \in {"arXiv_src_", "arxiv_src_"},
        yy \in {"99", "9"}, mm \in Months, seq \in {"005", "05", "0005"},
        ending \in {".tar", ".tar\n", ".tar\n\n", ".tar.gz", "xtar"}}

SubmissionNames ==
    {d \o category \o "96" \o mm \o dot \o number \o ending \o ext :
        d \in Directories, category \in {"", "cond-mat", "-", "Hep"},
        mm \in Months, dot \in {"", "."},
        number \in {"101", "3054", "30541", "305412"},
        ending \in {"", "\n"}, ext \in {".gz", ".pdf", ".tar", ""}}

Filenames == BulkNames \cup SubmissionNames

NameCall(op, filename, result) ==
    [op |-> op, filename |-> filename,
     outcome |-> result.outcome, value |-> result.value]

\* a filename is drawn; the functions are then applied to it
InitNames ==
    /\ manifest = [id \in Ids |-> Defaults]
    /\ run = Idle
    /\ \E filename \in Filenames : last = NameCall("none", filename, Returned({}))

ParseBulkArchiveFilenameCall ==
    /\ last' = NameCall("parse_bulk_archive_filename", last.filename,
                        Returned(ParseBulkArchiveFilename(last.filename)))
    /\ UNCHANGED <<manifest, run>>

IsBulkArchiveFilenameCall ==
    /\ last' = NameCall("is_bulk_archive_filename", last.filename,
                        Returned(IsBulkArchiveFilename(last.filename)))
    /\ UNCHANGED <<manifest, run>>

GenerateUriForBulkArchiveFilenameCall ==
    /\ last' = NameCall("generate_uri_for_bulk_archive_filename", last.filename,
                        GenerateUriForBulkArchiveFilename(last.filename))
    /\ UNCHANGED <<manifest, run>>

ParseOldStyleSubmissionFilenameCall ==
    /\ last' = NameCall("parse_old_style_submission_filename", last.filename,
                        Returned(ParseOldStyleSubmissionFilename(last.filename)))
    /\ UNCHANGED <<manifest, run>>

ParseCurrentStyleSubmissionFilenameCall ==
    /\ last' = NameCall("parse_current_style_submission_filename", last.filename,
                        Returned(ParseCurrentStyleSubmissionFilename(last.filename)))
    /\ UNCHANGED <<manifest, run>>

IsSubmissionFilenameCall ==
    /\ last' = NameCall("is_submission_filename", last.filename,
                        Returned(IsSubmissionFilename(last.filename)))
    /\ UNCHANGED <<manifest, run>>

GenerateUrlForSubmissionFilenameCall ==
    /\ last' = NameCall("generate_url_for_submission_filename", last.filename,
                        GenerateUrlForSubmissionFilename(last.filename))
    /\ UNCHANGED <<manifest, run>>

NamesNext ==
    \/ ParseBulkArchiveFilenameCall
    \/ IsBulkArchiveFilenameCall
    \/ GenerateUriForBulkArchiveFilenameCall
    \/ ParseOldStyleSubmissionFilenameCall
    \/ ParseCurrentStyleSubmissionFilenameCall
    \/ IsSubmissionFilenameCall
    \/ GenerateUrlForSubmissionFilenameCall

SpecNames == InitNames /\ [][NamesNext]_vars

(***************************************************************************)
(* The naming functions of Patterns applied to an argument of any type     *)
(***************************************************************************)
\* FileName.get_file_basename: the base name of a string, TypeError for an
\* argument that is no string
FileNameGetFileBasename(file_path) ==
    IF IsStr(file_path) THEN Returned(GetFileBasename(file_path.val))
    ELSE Raised("TypeError")

\* the old-style parser answering None to an argument that is no string
ParseOldStyleSubmissionFilenameOfAnswersNone(filename) ==
    IF IsStr(filename) THEN Returned(ParseOldStyleSubmissionFilename(filename.val))
    ELSE Returned(NoMatch)

\* each function reaches get_file_basename before it looks at the argument
ParseBulkArchiveFilenameOf(filename) ==
    LET basename == FileNameGetFileBasename(filename)
    IN  IF basename.outcome # "return" THEN basename
        ELSE Returned(ParseBulkArchiveFilename(filename.val))

IsBulkArchiveFilenameOf(filename) ==
    LET parts == ParseBulkArchiveFilenameOf(filename)
    IN  IF parts.outcome # "return" THEN parts
        ELSE Returned(IsBulkArchiveFilename(filename.val))

ParseOldStyleSubmissionFilenameOf(filename) ==
    LET basename == FileNameGetFileBasename(filename)
    IN  IF basename.outcome # "return" THEN basename
        ELSE Returned(ParseOldStyleSubmissionFilename(filename.val))

ParseCurrentStyleSubmissionFilenameOf(filename) ==
    LET basename == FileNameGetFileBasename(filename)
    IN  IF basename.outcome # "return" THEN basename
        ELSE Returned(ParseCurrentStyleSubmissionFilename(filename.val))

IsSubmissionFilenameOf(filename) ==
    LET old == ParseOldStyleSubmissionFilenameOf(filename)
        current == ParseCurrentStyleSubmissionFilenameOf(filename)
    IN  IF old.outcome # "return" THEN old
        ELSE IF old.value = NoMatch /\ current.outcome # "return" THEN current
        ELSE Returned(IsSubmissionFilename(filename.val))

GenerateUrlForSubmissionFilenameOf(filename) ==
    LET old == ParseOldStyleSubmissionFilenameOf(filename)
        current == ParseCurrentStyleSubmissionFilenameOf(filename)
    IN  IF old.outcome # "return" THEN old
        ELSE IF old.value = NoMatch /\ current.outcome # "return" THEN current
        ELSE GenerateUrlForSubmissionFilename(filename.val)

PyNumber == [type |-> "int", val |-> "7"]

ArgumentNames ==
    {d \o name : d \in Directories,
                 name \in {"arXiv_src_9902_005.tar", "arXiv_src_9913_005.tar",
                           "cond-mat9602101.gz", "cond-mat9613101.gz",
                           "1202.3054.pdf", "1213.3054.gz", "notes.txt", ""}}

Arguments == {PyNone, PyNumber} \cup {Str(name) : name \in ArgumentNames}

\* an argument is drawn; the functions are then applied to it
InitArguments ==
    /\ manifest = [id \in Ids |-> Defaults]
    /\ run = Idle
    /\ \E filename \in Arguments : last = NameCall("none", filename, Returned({}))

ParseBulkArchiveFilenameOfCall ==
    /\ last' = NameCall("parse_bulk_archive_filename", last.filename,
                        ParseBulkArchiveFilenameOf(last.filename))
    /\ UNCHANGED <<manifest, run>>

IsBulkArchiveFilenameOfCall ==
    /\ last' = NameCall("is_bulk_archive_filename", last.filename,
                        IsBulkArchiveFilenameOf(last.filename))
    /\ UNCHANGED <<manifest, run>>

ParseOldStyleSubmissionFilenameOfCall ==
    /\ last' = NameCall("parse_old_style_submission_filename", last.filename,
                        ParseOldStyleSubmissionFilenameOf(last.filename))
    /\ UNCHANGED <<manifest, run>>

ParseCurrentStyleSubmissionFilenameOfCall ==
    /\ last' = NameCall("parse_current_style_submission_filename", last.filename,
                        ParseCurrentStyleSubmissionFilenameOf(last.filename))
    /\ UNCHANGED <<manifest, run>>

IsSubmissionFilenameOfCall ==
    /\ last' = NameCall("is_submission_filename", last.filename,
                        IsSubmissionFilenameOf(last.filename))
    /\ UNCHANGED <<manifest, run>>

GenerateUrlForSubmissionFilenameOfCall ==
    /\ last' = NameCall("generate_url_for_submission_filename", last.filename,
                        GenerateUrlForSubmissionFilenameOf(last.filename))
    /\ UNCHANGED <<manifest, run>>

ArgumentsNext ==
    \/ ParseBulkArchiveFilenameOfCall
    \/ IsBulkArchiveFilenameOfCall
    \/ ParseOldStyleSubmissionFilenameOfCall
    \/ ParseCurrentStyleSubmissionFilenameOfCall
    \/ IsSubmissionFilenameOfCall
    \/ GenerateUrlForSubmissionFilenameOfCall

SpecArguments == InitArguments /\ [][ArgumentsNext]_vars

(***************************************************************************)
(* SubmissionHandler.get_submission_type_using_extension                   *)
(***************************************************************************)
MaxFiles == 2

PS == "FILE_TYPE_POSTSCRIPT_PS"
TEX_TEX == "FILE_TYPE_TEX_TEX"
TEX_LATEX_209_MAIN == "FILE_TYPE_TEX_LATEX_209_MAIN"
TEX_LATEX_2E_MAIN == "FILE_TYPE_TEX_LATEX_2E_MAIN"
TEX_STY == "FILE_TYPE_TEX_STY"

SUBMISSION_TYPE_POSTSCRIPT == "SUBMISSION_TYPE_POSTSCRIPT"
SUBMISSION_TYPE_PDF == "SUBMISSION_TYPE_PDF"
SUBMISSION_TYPE_TEX == "SUBMISSION_TYPE_TEX"
SUBMISSION_TYPE_UNKNOWN == "SUBMISSION_TYPE_UNKNOWN"

tex_types == {TEX_TEX, TEX_LATEX_209_MAIN, TEX_LATEX_2E_MAIN}

tex_supporting_types ==
    {"FILE_TYPE_TEX_LOG", "FILE_TYPE_TEX_FIG", "FILE_TYPE_IMAGE_GIF",
     "FILE_TYPE_IMAGE_PNG", "FILE_TYPE_IMAGE_JPG", "FILE_TYPE_TEX_BIB",
     "FILE_TYPE_TEX_CLO", "FILE_TYPE_TEX_BST", "FILE_TYPE_TEX_TOC",
     "FILE_TYPE_TEX_CLS", "FILE_TYPE_TEX_BBL", "FILE_TYPE_POSTSCRIPT_EPSF",
     "FILE_TYPE_TEX_PSTEX_T", "FILE_TYPE_TEX_PSTEX", TEX_STY,
     TEX_LATEX_209_MAIN, TEX_LATEX_2E_MAIN, TEX_TEX, PDF, PS,
     "FILE_TYPE_POSTSCRIPT_EPSI", "FILE_TYPE_POSTSCRIPT_EPS"}

\* the loop skipping a file without a type
RECURSIVE CollectFileTypesSkippingUntyped(_)
CollectFileTypesSkippingUntyped(submission_file_list) ==
    IF Len(submission_file_list) = 0 THEN {}
    ELSE Head(submission_file_list)
         \cup CollectFileTypesSkippingUntyped(Tail(submission_file_list))

\* A submission_file_list is modelled by what
\* FileHandler.get_file_type_from_extension answers for each of its files.
\* The loop over the files: a file without a type counts as FILE_TYPE_UNKNOWN
RECURSIVE CollectFileTypes(_)
CollectFileTypes(submission_file_list) ==
    IF Len(submission_file_list) = 0 THEN {}
    ELSE LET current_file_type_list == Head(submission_file_list)
         IN  (IF Cardinality(current_file_type_list) = 0
              THEN {UNKNOWN} ELSE current_file_type_list)
             \cup CollectFileTypes(Tail(submission_file_list))

GetSubmissionTypeUsingExtension(submission_file_list) ==
    LET file_types == CollectFileTypes(submission_file_list)
    IN  IF {PS} = file_types THEN SUBMISSION_TYPE_POSTSCRIPT
        ELSE IF {PDF} = file_types THEN SUBMISSION_TYPE_PDF
        ELSE IF Cardinality(tex_types \cap file_types) > 0
        THEN LET residual == file_types \ tex_supporting_types
             IN  IF Cardinality(residual) = 0 THEN SUBMISSION_TYPE_TEX
                 ELSE SUBMISSION_TYPE_UNKNOWN
        ELSE SUBMISSION_TYPE_UNKNOWN

\* the answers of FileHandler.get_file_type_from_extension for one file
FileTypeAnswers ==
    {{}, {UNKNOWN}, {PS}, {PDF}, {TEX_TEX}, {TEX_TEX, TEX_LATEX_2E_MAIN},
     {TEX_STY}, {GZ}, {PS, PDF}}

SubmissionFileLists == SeqsUpTo(FileTypeAnswers, MaxFiles)

ClassifierCall(op, submission_file_list, result) ==
    [op |-> op, submission_file_list |-> submission_file_list,
     outcome |-> result.outcome, value |-> result.value]

\* a file list is drawn; the classifier is then applied to it
InitClassifier ==
    /\ manifest = [id \in Ids |-> Defaults]
    /\ run = Idle
    /\ \E submission_file_list \in SubmissionFileLists :
          last = ClassifierCall("none", submission_file_list, Returned({}))

GetSubmissionTypeUsingExtensionCall ==
    /\ last' = ClassifierCall("get_submission_type_using_extension",
                              last.submission_file_list,
                              Returned(GetSubmissionTypeUsingExtension(
                                           last.submission_file_list)))
    /\ UNCHANGED <<manifest, run>>

ClassifierNext == GetSubmissionTypeUsingExtensionCall

SpecClassifier == InitClassifier /\ [][ClassifierNext]_vars

(***************************************************************************)
(* SubmissionHandler.generate_submission_entry                             *)
(***************************************************************************)
\* SubmissionType.value, the text stored for a submission type
SubmissionTypeValue(submission_type) == submission_type

\* The file at file_path is modelled by what the collaborators answer for
\* it: FileSystem.is_file, FileHandler.get_file_type_from_extension and
\* get_file_type_from_format, ArchiveHandler.check_extract_possible,
\* FileHandler.get_metadata (file_type and SHA256) and, for the members
\* that ArchiveHandler.list_contents names, their types by extension.
File(is_file, by_extension, by_format, archive_errors, file_type, archive_contents) ==
    [is_file |-> is_file, by_extension |-> by_extension, by_format |-> by_format,
     archive_errors |-> archive_errors, file_type |-> file_type,
     sha256 |-> "sha256-of-file", archive_contents |-> archive_contents]

\* Patterns.check_submission as a function of the path and the file
CheckSubmission(file_path, file) ==
    IF ~IsSubmissionFilename(file_path)
    THEN <<"Filename " \o file_path \o " does not match submission pattern">>
    ELSE IF ~file.is_file
    THEN <<"File " \o file_path \o " not found">>
    ELSE IF ~(\E file_type \in file.by_extension : file_type \in allowed_file_types)
    THEN <<"File extension type is not allowed">>
    ELSE IF file.by_format \notin allowed_file_types
    THEN <<"File type " \o FileTypeValue(file.by_format) \o " not allowed">>
    ELSE IF file.by_format \notin file.by_extension
    THEN <<"File format does not match file extension">>
    ELSE IF file.by_format \in allowed_archive_file_types
    THEN file.archive_errors
    ELSE <<>>

\* the entry without its 'diagnostics' when the type is unknown and the
\* validation found nothing
GenerateSubmissionEntrySilentOnUnknown(file_path, bulk_archive_hash, file) ==
    IF ~file.is_file THEN Raised("FileNotFoundError")
    ELSE
    LET submission_errors == CheckSubmission(file_path, file)
        url == GenerateUrlForSubmissionFilename(file_path)
        file_type == FileTypeValue(file.file_type)
        submission_type ==
            IF Len(submission_errors) > 0 THEN SUBMISSION_TYPE_UNKNOWN
            ELSE IF file_type \in {FileTypeValue(PDF)} THEN SUBMISSION_TYPE_PDF
            ELSE IF file_type \in {FileTypeValue(GZ), FileTypeValue(TGZ)}
            THEN GetSubmissionTypeUsingExtension(file.archive_contents)
            ELSE SUBMISSION_TYPE_UNKNOWN
        metadata ==
            [hash |-> [SHA256 |-> file.sha256], file_type |-> file_type,
             submission_type_by_extension |-> SubmissionTypeValue(submission_type)]
        submission_entry ==
            [metadata |-> metadata,
             origin |-> [url |-> url.value, bulk_archive_hash |-> bulk_archive_hash]]
    IN  IF url.outcome # "return" THEN Raised(url.outcome)
        ELSE Returned(<<metadata.hash.SHA256,
                        IF Len(submission_errors) > 0
                        THEN submission_entry
                             @@ ("diagnostics" :> [error_list |-> submission_errors])
                        ELSE submission_entry>>)

\* the entry with the type taken from the metadata also when the validation
\* found errors
GenerateSubmissionEntryClassifyingInvalid(file_path, bulk_archive_hash, file) ==
    IF ~file.is_file THEN Raised("FileNotFoundError")
    ELSE
    LET submission_errors == CheckSubmission(file_path, file)
        url == GenerateUrlForSubmissionFilename(file_path)
        file_type == FileTypeValue(file.file_type)
        submission_type ==
            IF file_type \in {FileTypeValue(PDF)} THEN SUBMISSION_TYPE_PDF
            ELSE IF file_type \in {FileTypeValue(GZ), FileTypeValue(TGZ)}
            THEN GetSubmissionTypeUsingExtension(file.archive_contents)
            ELSE SUBMISSION_TYPE_UNKNOWN
        metadata ==
            [hash |-> [SHA256 |-> file.sha256], file_type |-> file_type,
             submission_type_by_extension |-> SubmissionTypeValue(submission_type)]
        all_errors ==
            IF Len(submission_errors) = 0 /\ submission_type = SUBMISSION_TYPE_UNKNOWN
            THEN Append(submission_errors, "Unknown submission type")
            ELSE submission_errors
        submission_entry ==
            [metadata |-> metadata,
             origin |-> [url |-> url.value, bulk_archive_hash |-> bulk_archive_hash]]
    IN  IF url.outcome # "return" THEN Raised(url.outcome)
        ELSE Returned(<<metadata.hash.SHA256,
                        IF Len(all_errors) > 0
                        THEN submission_entry
                             @@ ("diagnostics" :> [error_list |-> all_errors])
                        ELSE submission_entry>>)

GenerateSubmissionEntry(file_path, bulk_archive_hash, file) ==
    IF ~file.is_file THEN Raised("FileNotFoundError")
    ELSE
    LET submission_errors == CheckSubmission(file_path, file)
        url == GenerateUrlForSubmissionFilename(file_path)
        file_type == FileTypeValue(file.file_type)
        submission_key == file.sha256
        submission_type ==
            IF Len(submission_errors) > 0 THEN SUBMISSION_TYPE_UNKNOWN
            ELSE IF file_type \in {FileTypeValue(PDF)} THEN SUBMISSION_TYPE_PDF
            ELSE IF file_type \in {FileTypeValue(GZ), FileTypeValue(TGZ)}
            THEN GetSubmissionTypeUsingExtension(file.archive_contents)
            ELSE SUBMISSION_TYPE_UNKNOWN
        metadata ==
            [hash |-> [SHA256 |-> file.sha256], file_type |-> file_type,
             submission_type_by_extension |-> SubmissionTypeValue(submission_type)]
        all_errors ==
            IF Len(submission_errors) = 0 /\ submission_type = SUBMISSION_TYPE_UNKNOWN
            THEN Append(submission_errors, "Unknown submission type")
            ELSE submission_errors
        submission_entry ==
            [metadata |-> metadata,
             origin |-> [url |-> url.value, bulk_archive_hash |-> bulk_archive_hash]]
    IN  IF url.outcome # "return" THEN Raised(url.outcome)
        ELSE Returned(<<submission_key,
                        IF Len(all_errors) > 0
                        THEN submission_entry
                             @@ ("diagnostics" :> [error_list |-> all_errors])
                        ELSE submission_entry>>)

EntryPaths == SubmissionPaths

EntryFiles ==
    {File(is_file, by_extension, by_format, archive_errors, file_type, archive_contents) :
        is_file \in BOOLEAN, by_extension \in {{}, {GZ}, {PDF}},
        by_format \in {GZ, PDF, UNKNOWN},
        archive_errors \in {<<>>, <<"path traversal: ../x">>},
        file_type \in {PDF, GZ, TGZ, UNKNOWN},
        archive_contents \in {<<>>, <<{PDF}>>, <<{TEX_TEX}, {TEX_STY}>>, <<{TEX_TEX}, {}>>}}

EntryCall(op, file_path, file, result) ==
    [op |-> op, file_path |-> file_path, file |-> file,
     outcome |-> result.outcome, value |-> result.value]

\* a path and a file are drawn; the entry is then generated for them
InitEntry ==
    /\ manifest = [id \in Ids |-> Defaults]
    /\ run = Idle
    /\ \E file_path \in EntryPaths : \E file \in EntryFiles :
          last = EntryCall("none", file_path, file, Returned({}))

GenerateSubmissionEntryCall ==
    /\ last' = EntryCall("generate_submission_entry", last.file_path, last.file,
                         GenerateSubmissionEntry(last.file_path, "bulk-sha256", last.file))
    /\ UNCHANGED <<manifest, run>>

EntryNext == GenerateSubmissionEntryCall

SpecEntry == InitEntry /\ [][EntryNext]_vars

(***************************************************************************)
(* Operations                                                              *)
(***************************************************************************)
NoSource == Source(FALSE, FALSE, Undecoded)

Call(op, self, other, source, result) ==
    [op |-> op, self |-> self, other |-> other, source |-> source,
     outcome |-> result.outcome, value |-> result.value]

Init ==
    /\ manifest = [id \in Ids |-> Defaults]
    /\ last = Call("__init__", "A", "A", NoSource, Returned({}))
    /\ run = Idle

\* import_arxiv_xml; ImportOf is evaluated once for each source offered
DiffImports == [source \in DiffSources |-> ImportOf(source)]
Imports == [source \in ImportSources |-> ImportOf(source)]

\* import_arxiv_xml without its clear(): the entries of the source are
\* added to those already held
ImportArxivXmlWithoutClear(self, source, r) ==
    /\ manifest' = [manifest EXCEPT ![self] =
                        [metadata |-> r.manifest.metadata,
                         contents |-> r.manifest.contents @@ manifest[self].contents]]
    /\ last' = Call("import_arxiv_xml", self, self, source,
                    [outcome |-> r.outcome, value |-> r.at])
    /\ UNCHANGED run

ImportArxivXml(self, source, r) ==
    /\ manifest' = [manifest EXCEPT ![self] = r.manifest]
    /\ last' = Call("import_arxiv_xml", self, self, source,
                    [outcome |-> r.outcome, value |-> r.at])
    /\ UNCHANGED run

Clear(self) ==
    /\ manifest' = [manifest EXCEPT ![self] = Defaults]
    /\ last' = Call("clear", self, self, NoSource, Returned({}))
    /\ UNCHANGED run

IsNewerThanCall(self, other) ==
    /\ last' = Call("is_newer_than", self, other, NoSource,
                    IsNewerThan(manifest[self], manifest[other]))
    /\ UNCHANGED <<manifest, run>>

FindNewEntriesCall(self, other) ==
    /\ last' = Call("find_new_entries", self, other, NoSource,
                    FindNewEntries(manifest[self], manifest[other]))
    /\ UNCHANGED <<manifest, run>>

FindUpdatedEntriesCall(self, other) ==
    /\ last' = Call("find_updated_entries", self, other, NoSource,
                    FindUpdatedEntries(manifest[self], manifest[other]))
    /\ UNCHANGED <<manifest, run>>

\* two snapshots, imported and compared
DiffNext ==
    \/ \E self \in Ids : \E source \in DiffSources :
            ImportArxivXml(self, source, DiffImports[source])
    \/ \E self \in Ids : Clear(self)
    \/ \E self \in Ids : \E other \in Ids : IsNewerThanCall(self, other)
    \/ \E self \in Ids : \E other \in Ids : FindNewEntriesCall(self, other)
    \/ \E self \in Ids : \E other \in Ids : FindUpdatedEntriesCall(self, other)

SpecDiff == Init /\ [][DiffNext]_vars

\* one snapshot, imported from every kind of source
ImportNext ==
    \/ \E source \in ImportSources : ImportArxivXml("A", source, Imports[source])
    \/ Clear("A")

SpecImport == Init /\ [][ImportNext]_vars

\* list_keys handing out the key set and leaving the snapshot without entries
ListKeysCallDraining(self) ==
    /\ manifest' = [manifest EXCEPT ![self].contents = <<>>]
    /\ last' = Call("list_keys", self, self, NoSource, Returned(ListKeys(manifest[self])))
    /\ UNCHANGED run

ListKeysCall(self) ==
    /\ last' = Call("list_keys", self, self, NoSource, Returned(ListKeys(manifest[self])))
    /\ UNCHANGED <<manifest, run>>

GetStatisticsCall(self) ==
    /\ last' = Call("get_statistics", self, self, NoSource,
                    Returned(GetStatistics(manifest[self])))
    /\ UNCHANGED <<manifest, run>>

MaxReadRecords == 1

ReadSources ==
    {Source(TRUE, TRUE, XmlDict(p[1], p[2])) :
        p \in {"Mon Jan  6 04:58:03 2025", "Mon Apr  7 04:58:03 2025"}
              \X SeqsUpTo({RecA, RecAChanged, RecB}, MaxReadRecords)}

ReadImports == [source \in ReadSources |-> ImportOf(source)]

\* two snapshots, imported, cleared and read
ReadsNext ==
    \/ \E self \in Ids : \E source \in ReadSources :
            ImportArxivXml(self, source, ReadImports[source])
    \/ \E self \in Ids : Clear(self)
    \/ \E self \in Ids : ListKeysCall(self)
    \/ \E self \in Ids : GetStatisticsCall(self)
    \/ \E self \in Ids : \E other \in Ids : IsNewerThanCall(self, other)
    \/ \E self \in Ids : \E other \in Ids : FindNewEntriesCall(self, other)
    \/ \E self \in Ids : \E other \in Ids : FindUpdatedEntriesCall(self, other)

SpecReads == Init /\ [][ReadsNext]_vars

\* the validation of bundle files
SpecBulk == Init /\ [][BulkNext]_vars

\* the validation of document files
SpecSubmission == Init /\ [][SubmissionNext]_vars

(***************************************************************************)
(* Properties of the comparison of two snapshots                           *)
(***************************************************************************)
\* the snapshots the last call was made on (a comparison changes neither)
Current == manifest[last.self]
Reference == manifest[last.other]

Timestamp(m) == m.metadata["manifest_timestamp_iso"]

\* chronological order of two ISO-8601 UTC texts, by calendar date and time
\* of day read as numbers
IsoDate(iso) == DigitsToNat(SubSeq(iso, 1, 4) \o SubSeq(iso, 6, 7) \o SubSeq(iso, 9, 10))
IsoTime(iso) == DigitsToNat(SubSeq(iso, 12, 13) \o SubSeq(iso, 15, 16) \o SubSeq(iso, 18, 19))
Later(a, b) ==
    \/ IsoDate(a) > IsoDate(b)
    \/ IsoDate(a) = IsoDate(b) /\ IsoTime(a) > IsoTime(b)

StrictSuperset(S, T) == T \subseteq S /\ S # T

Inconsistent(m, other) ==
    \/ /\ Timestamp(m) = Timestamp(other)
       /\ ListKeys(m) # ListKeys(other)
    \/ /\ Later(Timestamp(m), Timestamp(other))
       /\ ~StrictSuperset(ListKeys(m), ListKeys(other))
    \/ /\ Later(Timestamp(other), Timestamp(m))
       /\ ~StrictSuperset(ListKeys(other), ListKeys(m))

BothStamped == HasTimestamp(Current) /\ HasTimestamp(Reference)

\* C1: on two snapshots that carry a generation timestamp, is_newer_than
\* raises ValueError exactly when the timestamps are equal and the key sets
\* differ, or the timestamps differ and the keys of the later snapshot are
\* not a strict superset of the keys of the earlier one, whichever of
\* self/other is the later; otherwise it returns.
C1_RaisesExactlyWhenInconsistent ==
    (last.op = "is_newer_than" /\ BothStamped) =>
        /\ (last.outcome = "ValueError") <=> Inconsistent(Current, Reference)
        /\ ~Inconsistent(Current, Reference) => last.outcome = "return"

\* other is the later snapshot and lacks a key of self: the call raised
C1_Witness ==
    /\ last.op = "is_newer_than" /\ BothStamped
    /\ Later(Timestamp(Reference), Timestamp(Current))
    /\ ListKeys(Current) \ ListKeys(Reference) # {}
    /\ ListKeys(Reference) \ ListKeys(Current) # {}
    /\ last.outcome = "ValueError"

\* C2: when is_newer_than returns, it returns True if and only if the
\* timestamp of self is strictly later than the timestamp of other.
C2_ReturnsTrueIffStrictlyLater ==
    (last.op = "is_newer_than" /\ last.outcome = "return") =>
        /\ BothStamped
        /\ last.value <=> Later(Timestamp(Current), Timestamp(Reference))

\* self is strictly later, adds a key and drops none: True was returned
C2_Witness ==
    /\ last.op = "is_newer_than" /\ last.outcome = "return"
    /\ last.value = TRUE
    /\ StrictSuperset(ListKeys(Current), ListKeys(Reference))
    /\ ListKeys(Reference) # {}

\* C3: find_new_entries and find_updated_entries return a set only when the
\* current snapshot is strictly later than the reference and its keys are a
\* strict superset of the reference's; in every other case they raise, with
\* ValueError whenever both snapshots carry a timestamp.
C3_DiffRequiresStrictlyOlderReference ==
    (last.op \in {"find_new_entries", "find_updated_entries"}) =>
        /\ (last.outcome = "return") <=>
              /\ BothStamped
              /\ Later(Timestamp(Current), Timestamp(Reference))
              /\ StrictSuperset(ListKeys(Current), ListKeys(Reference))
        /\ (BothStamped /\ ~Later(Timestamp(Current), Timestamp(Reference)))
              => last.outcome = "ValueError"

\* the reference is the later snapshot and consistent with the current one
C3_Witness ==
    /\ last.op = "find_updated_entries" /\ BothStamped
    /\ Later(Timestamp(Reference), Timestamp(Current))
    /\ StrictSuperset(ListKeys(Reference), ListKeys(Current))
    /\ last.outcome = "ValueError"

\* C4: a successful find_new_entries returns exactly the keys of the
\* current snapshot that the reference lacks.
C4_NewEntriesAreKeyDifference ==
    (last.op = "find_new_entries" /\ last.outcome = "return") =>
        /\ \A key \in last.value : key \in ListKeys(Current) /\ key \notin ListKeys(Reference)
        /\ \A key \in ListKeys(Current) : key \notin ListKeys(Reference) => key \in last.value

\* a successful call on snapshots sharing a key
C4_Witness ==
    /\ last.op = "find_new_entries" /\ last.outcome = "return"
    /\ ListKeys(Current) \cap ListKeys(Reference) # {}
    /\ last.value # {}

PrimaryFingerprint(m, key) == m.contents[key].hash.MD5

\* C5: a successful find_updated_entries returns exactly the keys of both
\* snapshots whose hash 'MD5' differs; a key with equal 'MD5' is not
\* returned whatever its other fields, nor is a key of only one snapshot.
C5_UpdatedEntriesDifferInMD5 ==
    (last.op = "find_updated_entries" /\ last.outcome = "return") =>
        \A key \in ListKeys(Current) \cup ListKeys(Reference) \cup last.value :
            key \in last.value <=>
                /\ key \in ListKeys(Current)
                /\ key \in ListKeys(Reference)
                /\ PrimaryFingerprint(Current, key) # PrimaryFingerprint(Reference, key)

\* a shared key with equal 'MD5' whose other fields differ was not returned
C5_Witness ==
    /\ last.op = "find_updated_entries" /\ last.outcome = "return"
    /\ \E key \in ListKeys(Current) \cap ListKeys(Reference) :
          /\ PrimaryFingerprint(Current, key) = PrimaryFingerprint(Reference, key)
          /\ Current.contents[key] # Reference.contents[key]
          /\ key \notin last.value

(***************************************************************************)
(* Properties of import_arxiv_xml                                          *)
(***************************************************************************)
Imported == last.op = "import_arxiv_xml"
Files == last.source.xml_dict.arXivSRC.file.val

\* the source is found, is XML, has the expected shape and a timestamp
\* that parses: the loop over its file-records is entered
Decodes(source) ==
    /\ source.is_file
    /\ source.is_xml_format
    /\ IsArxivKeysPresent(source.xml_dict)
    /\ ArxivTimestampParses(source.xml_dict.arXivSRC.timestamp.val)

\* C6: whenever import_arxiv_xml fails, no entry is retained: none of the
\* records before the first bad one is present in contents after the error.
C6_FailedImportRetainsNoEntry ==
    (Imported /\ last.outcome # "return") => ListKeys(manifest[last.self]) = {}

\* two file-records reduce to the same canonical key
SameKey(i, j) ==
    GetFileBasename(Files[i].filename.val) = GetFileBasename(Files[j].filename.val)
Collides(j) == \E i \in 1..(j - 1) : SameKey(i, j)
HasCollision == \E j \in 1..Len(Files) : Collides(j)

ThreeDigits(n) ==
    IF n < 0 THEN "-" \o (IF 0 - n < 10 THEN "0" ELSE "") \o NatToDigits(0 - n)
    ELSE (IF n < 10 THEN "00" ELSE IF n < 100 THEN "0" ELSE "") \o NatToDigits(n)

Inconsistently(record) ==
    \/ ~PyIntParses(record.seq_num.val)
    \/ ~PyIntParses(SliceFrom2(record.yymm.val))
    \/ record.filename.val #
          "src/arXiv_src_" \o record.yymm.val \o "_"
              \o ThreeDigits(PyInt(record.seq_num.val)) \o ".tar"
    \/ PyInt(SliceFrom2(record.yymm.val)) \notin 1..12

C8_InconsistentRecordRejected ==
    (Imported /\ Decodes(last.source)) =>
        \A i \in 1..Len(Files) : Inconsistently(Files[i]) =>
            /\ ~ProcessFileEntryReturns(Files[i])
            /\ last.outcome \in {"KeyError", "ValueError"}
            /\ last.value \in 1..i
            /\ last.value = i => last.outcome = "ValueError"
            /\ (\A k \in 1..(i - 1) : ~Inconsistently(Files[k]) /\ ~Collides(k))
                  => last.value = i

\* a record of month 00 or 13 with a filename matching the template, met
\* after a consistent one
C8_Witness ==
    /\ Imported /\ Decodes(last.source)
    /\ Len(Files) = 2
    /\ ~Inconsistently(Files[1])
    /\ Files[2].filename.val =
          "src/arXiv_src_" \o Files[2].yymm.val \o "_"
              \o ThreeDigits(PyInt(Files[2].seq_num.val)) \o ".tar"
    /\ PyInt(SliceFrom2(Files[2].yymm.val)) \notin 1..12
    /\ last.outcome = "ValueError" /\ last.value = 2

(***************************************************************************)
(* Properties of check_bulk_archive                                        *)
(***************************************************************************)
\* the stage a collaborator belongs to
StageOf(collaborator) ==
    CASE collaborator = "FileSystem.is_file" -> 2
      [] collaborator = "FileHandler.get_file_type_from_extension" -> 3
      [] collaborator = "FileHandler.get_file_type_from_format" -> 3
      [] collaborator = "ArchiveHandler.check_extract_possible" -> 4
      [] collaborator = "ArchiveHandler.list_contents" -> 5

Invoked(collaborator) == \E i \in 1..Len(run.calls) : run.calls[i] = collaborator
AnswerOf(collaborator) ==
    run.answers[CHOOSE i \in 1..Len(run.calls) : run.calls[i] = collaborator]

InBulkCheck == run.op = "check_bulk_archive"
BulkReturned == InBulkCheck /\ run.pc = "done"

\* C9: check_bulk_archive is short-circuiting.  No collaborator of stage k
\* is invoked once an earlier stage has put an error on the list, no stage
\* adds an error to a list that holds one of an earlier stage, and so the
\* list never holds errors of two different stages.
C9_StagesShortCircuit ==
    InBulkCheck =>
        /\ \A i \in 1..Len(run.calls) : \A j \in 1..Len(run.origin) :
              run.origin[j] >= StageOf(run.calls[i])
        /\ \A i \in 1..Len(run.origin) : \A j \in 1..Len(run.origin) :
              run.origin[i] = run.origin[j]
        /\ Len(run.origin) = Len(run.error_list)

\* the call returned an error of stage 3, having invoked no collaborator of
\* the stages 4 and 5
C9_Witness ==
    /\ BulkReturned
    /\ run.error_list # <<>> /\ run.origin[1] = 3
    /\ Invoked("FileHandler.get_file_type_from_format")
    /\ ~Invoked("ArchiveHandler.check_extract_possible")
    /\ ~Invoked("ArchiveHandler.list_contents")

\* C10: for a validly named, existing file whose extension types lack tar,
\* the result is the single error 'File extension is not tar'; when the
\* extension passes and the sniffed type is not tar, it is the single error
\* 'File format is not tar'; in both cases neither the extractability check
\* nor the member listing is performed.
C10_TypeStageReportsOneError ==
    ( /\ BulkReturned
      /\ IsBulkArchiveFilename(run.file_path)
      /\ Invoked("FileSystem.is_file") /\ AnswerOf("FileSystem.is_file") = TRUE ) =>
        /\ Invoked("FileHandler.get_file_type_from_extension")
        /\ LET by_extension == AnswerOf("FileHandler.get_file_type_from_extension")
           IN  /\ TAR \notin by_extension =>
                    /\ run.error_list = <<"File extension is not tar">>
                    /\ ~Invoked("ArchiveHandler.check_extract_possible")
                    /\ ~Invoked("ArchiveHandler.list_contents")
               /\ TAR \in by_extension =>
                    /\ Invoked("FileHandler.get_file_type_from_format")
                    /\ AnswerOf("FileHandler.get_file_type_from_format") # TAR =>
                          /\ run.error_list = <<"File format is not tar">>
                          /\ ~Invoked("ArchiveHandler.check_extract_possible")
                          /\ ~Invoked("ArchiveHandler.list_contents")

\* a bundle with the tar extension sniffed as something else
C10_Witness ==
    /\ BulkReturned
    /\ IsBulkArchiveFilename(run.file_path)
    /\ Invoked("FileHandler.get_file_type_from_format")
    /\ AnswerOf("FileHandler.get_file_type_from_extension") = {TAR}
    /\ AnswerOf("FileHandler.get_file_type_from_format") = PDF
    /\ run.error_list = <<"File format is not tar">>

\* the member names of a listing that the document grammar rejects, in
\* listing order
NonConforming(names) == SelectSeq(names, LAMBDA name : ~IsSubmissionFilename(name))

\* the names of a sequence, separated by a comma and a space
RECURSIVE Listed(_)
Listed(names) ==
    IF Len(names) = 0 THEN ""
    ELSE IF Len(names) = 1 THEN Head(names)
    ELSE Head(names) \o ", " \o Listed(Tail(names))

\* C11: when the stages 1-4 of check_bulk_archive have passed and the
\* members are listed, the result is empty if every member name satisfies
\* is_submission_filename, and otherwise it is exactly one message that
\* lists every non-conforming member name, in listing order, and no
\* conforming name.
C11_MemberStageListsEveryOffender ==
    (BulkReturned /\ Invoked("ArchiveHandler.list_contents")) =>
        LET members == AnswerOf("ArchiveHandler.list_contents")
        IN  /\ Invoked("ArchiveHandler.check_extract_possible")
            /\ (\A i \in 1..Len(members) : IsSubmissionFilename(members[i]))
                  => run.error_list = <<>>
            /\ (\E i \in 1..Len(members) : ~IsSubmissionFilename(members[i]))
                  => run.error_list =
                        <<"Archive entries do not match submission filename pattern: "
                          \o Listed(NonConforming(members))>>

\* a listing of two different non-conforming names: both are reported, in
\* listing order, in one message
C11_Witness ==
    /\ BulkReturned /\ Invoked("ArchiveHandler.list_contents")
    /\ AnswerOf("ArchiveHandler.list_contents") = <<"not_a_submission.txt", "1213.3054.pdf">>
    /\ run.error_list =
          <<"Archive entries do not match submission filename pattern: "
            \o "not_a_submission.txt, 1213.3054.pdf">>

(***************************************************************************)
(* Properties of check_submission                                          *)
(***************************************************************************)
InSubmissionCheck == run.op = "check_submission"
SubmissionReturned == InSubmissionCheck /\ run.pc = "done"

\* the stage 3 of the call has run
TypeStageRan ==
    /\ InSubmissionCheck /\ run.pc \in {"extract", "done"}
    /\ Invoked("FileHandler.get_file_type_from_extension")

\* the errors of the list that a given stage appended
ErrorsOf(stage) ==
    LET at == {i \in 1..Len(run.origin) : run.origin[i] = stage}
    IN  [i \in at |-> run.error_list[i]]

\* C12: stage 3 of check_submission evaluates three checks in order
\* (extension types intersect {gz, tgz, pdf}; sniffed type in {gz, tgz,
\* pdf}; sniffed type among the extension types) and reports only the first
\* that fails: it contributes at most one error, whatever the answers.
C12_TypeStageReportsFirstFailure ==
    TypeStageRan =>
        LET by_extension == AnswerOf("FileHandler.get_file_type_from_extension")
            by_format == AnswerOf("FileHandler.get_file_type_from_format")
            reported == ErrorsOf(3)
            first == 1
        IN  /\ Invoked("FileHandler.get_file_type_from_format")
            /\ Cardinality(DOMAIN reported) <= 1
            /\ DOMAIN reported \subseteq {first}
            /\ IF by_extension \cap {GZ, TGZ, PDF} = {}
               THEN reported = (first :> "File extension type is not allowed")
               ELSE IF by_format \notin {GZ, TGZ, PDF}
               THEN reported = (first :> "File type " \o by_format \o " not allowed")
               ELSE IF by_format \notin by_extension
               THEN reported = (first :> "File format does not match file extension")
               ELSE DOMAIN reported = {}

\* all three checks fail and only the first is reported
C12_Witness ==
    /\ SubmissionReturned /\ TypeStageRan
    /\ AnswerOf("FileHandler.get_file_type_from_extension") = {TAR}
    /\ AnswerOf("FileHandler.get_file_type_from_format") = UNKNOWN
    /\ run.error_list = <<"File extension type is not allowed">>

\* C13: check_submission invokes ArchiveHandler.check_extract_possible if
\* and only if the stages 1-3 produced no error and the sniffed type is gz
\* or tgz; it is never invoked for a document sniffed as PDF or as another
\* non-archive type, and when it is invoked its errors are appended to the
\* result.
C13_ExtractOnlyForArchives ==
    SubmissionReturned =>
        LET earlier == {i \in 1..Len(run.origin) : run.origin[i] \in {1, 2, 3}}
            sniffed_archive ==
                /\ Invoked("FileHandler.get_file_type_from_format")
                /\ AnswerOf("FileHandler.get_file_type_from_format") \in {GZ, TGZ}
        IN  /\ Invoked("ArchiveHandler.check_extract_possible")
                  <=> (earlier = {} /\ sniffed_archive)
            /\ Invoked("ArchiveHandler.check_extract_possible")
                  => run.error_list = AnswerOf("ArchiveHandler.check_extract_possible")
            /\ ~Invoked("ArchiveHandler.check_extract_possible")
                  => \A i \in 1..Len(run.origin) : run.origin[i] # 4

\* a gzip document that passes the stages 1-3 and whose extractability
\* check reports two errors: both are the result
C13_Witness ==
    /\ SubmissionReturned /\ TypeStageRan
    /\ AnswerOf("FileHandler.get_file_type_from_extension") = {GZ}
    /\ AnswerOf("FileHandler.get_file_type_from_format") = GZ
    /\ Invoked("ArchiveHandler.check_extract_possible")
    /\ Len(AnswerOf("ArchiveHandler.check_extract_possible")) = 2
    /\ run.error_list = AnswerOf("ArchiveHandler.check_extract_possible")

(***************************************************************************)
(* Properties of the naming functions                                      *)
(***************************************************************************)
\* the base name of the filename the functions are applied to
Basename == GetFileBasename(last.filename)

IsDigits(s, n) == Len(s) = n /\ \A i \in 1..n : Char(s, i) \in Digits

ValidMonths == {"01", "02", "03", "04", "05", "06", "07", "08", "09", "10", "11", "12"}

\* the bundle grammar as a template: a name is canonical when it is the
\* template filled with two, two and three digits, and nothing else
BundleTemplate(yy, mm, seq) == "arXiv_src_" \o yy \o mm \o "_" \o seq \o ".tar"
BundleYear(b) == SubSeq(b, 11, 12)
BundleMonth(b) == SubSeq(b, 13, 14)
BundleSeq(b) == SubSeq(b, 16, 18)
CanonicalBundle(b) ==
    /\ Len(b) = Len(BundleTemplate("00", "00", "000"))
    /\ IsDigits(BundleYear(b), 2) /\ IsDigits(BundleMonth(b), 2) /\ IsDigits(BundleSeq(b), 3)
    /\ b = BundleTemplate(BundleYear(b), BundleMonth(b), BundleSeq(b))

\* C14 as stated: is_bulk_archive_filename(name) is true exactly when the
\* base name is arXiv_src_{yy}{mm}_{seq}.tar with two, two and three digits
\* and mm in 01..12, and false for every other string.
C14_BulkNameValidExactlyOnGrammar ==
    last.op = "is_bulk_archive_filename" =>
        (last.value <=> (CanonicalBundle(Basename) /\ BundleMonth(Basename) \in ValidMonths))

\* C15: generate_uri_for_bulk_archive_filename returns 's3://arxiv/src/'
\* followed by the base name for every name that is_bulk_archive_filename
\* accepts and raises ValueError for every name it rejects; no URI is
\* returned for a rejected name.
C15_UriExactlyForValidBulkNames ==
    last.op = "generate_uri_for_bulk_archive_filename" =>
        IF IsBulkArchiveFilename(last.filename)
        THEN /\ last.outcome = "return"
             /\ last.value = "s3://arxiv/src/" \o Basename
        ELSE last.outcome = "ValueError"

\* a valid bundle name with a leading path: the URI carries the base name
C15_Witness ==
    /\ last.op = "generate_uri_for_bulk_archive_filename"
    /\ last.filename = "/tmp/arXiv_src_9912_005.tar"
    /\ last.outcome = "return"
    /\ last.value = "s3://arxiv/src/arXiv_src_9912_005.tar"

\* C16 as stated: generate_url_for_submission_filename raises ValueError for
\* every name for which is_submission_filename is false, names of a valid
\* grammar with a month outside 01..12 included, and returns a URL only for
\* valid names.
C16_UrlOnlyForValidSubmissionNames ==
    last.op = "generate_url_for_submission_filename" =>
        /\ ~IsSubmissionFilename(last.filename) => last.outcome = "ValueError"
        /\ last.outcome = "return" => IsSubmissionFilename(last.filename)

\* the document grammars read off the base name: its extension is the
\* final '.gz' or '.pdf', the stem is what stands before it
DocumentExt(b) ==
    IF Len(b) >= 3 /\ SubSeq(b, Len(b) - 2, Len(b)) = ".gz" THEN ".gz"
    ELSE IF Len(b) >= 4 /\ SubSeq(b, Len(b) - 3, Len(b)) = ".pdf" THEN ".pdf"
    ELSE ""
Stem(b) == SubSeq(b, 1, Len(b) - Len(DocumentExt(b)))

LegacyName(b) ==
    LET stem == Stem(b)
    IN  /\ DocumentExt(b) # ""
        /\ Len(stem) >= 8
        /\ \A i \in 1..(Len(stem) - 7) : Char(stem, i) \in LowerCase \cup {"-"}
        /\ IsDigits(SubSeq(stem, Len(stem) - 6, Len(stem)), 7)
LegacyMonth(b) == SubSeq(Stem(b), Len(Stem(b)) - 4, Len(Stem(b)) - 3)

CurrentName(b) ==
    LET stem == Stem(b)
    IN  /\ DocumentExt(b) # ""
        /\ Len(stem) \in {9, 10}
        /\ IsDigits(SubSeq(stem, 1, 4), 4)
        /\ Char(stem, 5) = "."
        /\ IsDigits(SubSeq(stem, 6, Len(stem)), Len(stem) - 5)
CurrentMonth(b) == SubSeq(Stem(b), 3, 4)

\* C17 as stated: is_submission_filename(name) is true exactly when the base
\* name matches the legacy grammar or the current grammar and the month of
\* the matching grammar is in 01..12, and false otherwise.
C17_SubmissionNameValidExactlyOnGrammar ==
    last.op = "is_submission_filename" =>
        (last.value <=>
            \/ LegacyName(Basename) /\ LegacyMonth(Basename) \in ValidMonths
            \/ CurrentName(Basename) /\ CurrentMonth(Basename) \in ValidMonths)

\* is_submission_filename and generate_url_for_submission_filename with the
\* current grammar tried before the legacy one
IsSubmissionFilenameCurrentFirst(filename) ==
    LET old == ParseOldStyleSubmissionFilename(filename)
        current == ParseCurrentStyleSubmissionFilename(filename)
    IN  IF current # NoMatch THEN current[2] \in ValidMonths
        ELSE IF old # NoMatch THEN old[3] \in ValidMonths
        ELSE FALSE

LegacyUrl(old) == "https://arxiv.org/abs/" \o old[1] \o "/" \o old[2] \o old[3] \o old[4]
CurrentUrl(current) ==
    "https://arxiv.org/abs/" \o current[1] \o current[2] \o "." \o current[3]

GenerateUrlCurrentFirst(filename) ==
    LET old == ParseOldStyleSubmissionFilename(filename)
        current == ParseCurrentStyleSubmissionFilename(filename)
    IN  IF current # NoMatch THEN Returned(CurrentUrl(current))
        ELSE IF old # NoMatch THEN Returned(LegacyUrl(old))
        ELSE Raised("ValueError")

\* C18: the legacy grammar is tried first by is_submission_filename and by
\* generate_url_for_submission_filename, and the two grammars exclude each
\* other: no name is parsed by both parse_old_style_submission_filename and
\* parse_current_style_submission_filename, so that the verdict and the URL
\* are the same with the grammars tried in the other order.
C18_GrammarsExcludeEachOther ==
    LET old == ParseOldStyleSubmissionFilename(last.filename)
        current == ParseCurrentStyleSubmissionFilename(last.filename)
    IN  /\ (last.op = "parse_old_style_submission_filename" /\ last.value # NoMatch)
              => current = NoMatch
        /\ (last.op = "parse_current_style_submission_filename" /\ last.value # NoMatch)
              => old = NoMatch
        /\ last.op = "is_submission_filename"
              => last.value = IsSubmissionFilenameCurrentFirst(last.filename)
        /\ last.op = "generate_url_for_submission_filename"
              => /\ last.outcome = GenerateUrlCurrentFirst(last.filename).outcome
                 /\ last.outcome = "return"
                       => last.value = GenerateUrlCurrentFirst(last.filename).value
                 /\ old # NoMatch
                       => last.outcome = "return" /\ last.value = LegacyUrl(old)

\* a legacy name is given the URL of the legacy template, and the current
\* grammar does not parse it
C18_Witness ==
    /\ last.op = "generate_url_for_submission_filename"
    /\ last.filename = "/tmp/cond-mat9612101.gz"
    /\ last.outcome = "return"
    /\ last.value = "https://arxiv.org/abs/cond-mat/9612101"
    /\ ParseCurrentStyleSubmissionFilename(last.filename) = NoMatch

\* C19 as stated: parse_bulk_archive_filename returns a (yy, mm, seq) triple
\* only when the base name is exactly 'arXiv_src_' + two digits + two digits
\* + '_' + three digits + '.tar', with no character of any kind, a line
\* terminator included, after '.tar'; every other base name yields None.
C19_ParseAdmitsNoTrailingCharacter ==
    (last.op = "parse_bulk_archive_filename" /\ last.value # NoMatch)
        => CanonicalBundle(Basename)

\* C20: for a filename whose base name is canonical, parse_bulk_archive_filename
\* returns the triple (yy, mm, seq) of the name, and the template
\* 'arXiv_src_{yy}{mm}_{seq}.tar' filled with that triple is the base name
\* again (the name itself when it has no leading path).
C20_ParseThenFormatIsIdentity ==
    (last.op = "parse_bulk_archive_filename" /\ CanonicalBundle(Basename)) =>
        /\ last.value # NoMatch
        /\ last.value = <<BundleYear(Basename), BundleMonth(Basename), BundleSeq(Basename)>>
        /\ BundleTemplate(last.value[1], last.value[2], last.value[3]) = Basename
        /\ LastSlash(last.filename) = 0
              => BundleTemplate(last.value[1], last.value[2], last.value[3]) = last.filename

\* a canonical name with a leading path is parsed and formatted back to its
\* base name
C20_Witness ==
    /\ last.op = "parse_bulk_archive_filename"
    /\ last.filename = "/tmp/arXiv_src_9913_005.tar"
    /\ last.value = <<"99", "13", "005">>
    /\ BundleTemplate(last.value[1], last.value[2], last.value[3]) = "arXiv_src_9913_005.tar"

(***************************************************************************)
(* Properties of the classification of a submission                        *)
(***************************************************************************)
\* the union T of the tags of all files of the list, a file without a tag
\* contributing the UNKNOWN tag
TagsOf(files) ==
    UNION {IF files[i] = {} THEN {UNKNOWN} ELSE files[i] : i \in 1..Len(files)}

TexMain == {"FILE_TYPE_TEX_TEX", "FILE_TYPE_TEX_LATEX_209_MAIN", "FILE_TYPE_TEX_LATEX_2E_MAIN"}

\* C21: get_submission_type_using_extension decides on the union T of the
\* tags of all files: T = {PostScript-PS} gives POSTSCRIPT; else T = {PDF}
\* gives PDF; else, if T holds a TeX-main tag, TEX when T is a subset of the
\* TeX-supporting set and UNKNOWN otherwise; else UNKNOWN.  So {TeX-main,
\* PDF} gives TEX, {TeX-main, UNKNOWN} gives UNKNOWN, and the empty set
\* gives UNKNOWN.
C21_ClassifierDecidesOnTagUnion ==
    last.op = "get_submission_type_using_extension" =>
        LET T == TagsOf(last.submission_file_list)
        IN  /\ T = {"FILE_TYPE_POSTSCRIPT_PS"} => last.value = "SUBMISSION_TYPE_POSTSCRIPT"
            /\ T = {"FILE_TYPE_PDF"} => last.value = "SUBMISSION_TYPE_PDF"
            /\ (T # {"FILE_TYPE_POSTSCRIPT_PS"} /\ T # {"FILE_TYPE_PDF"}) =>
                  /\ (T \cap TexMain # {} /\ T \subseteq tex_supporting_types)
                        => last.value = "SUBMISSION_TYPE_TEX"
                  /\ (T \cap TexMain # {} /\ ~(T \subseteq tex_supporting_types))
                        => last.value = "SUBMISSION_TYPE_UNKNOWN"
                  /\ T \cap TexMain = {} => last.value = "SUBMISSION_TYPE_UNKNOWN"
            /\ T = {"FILE_TYPE_TEX_TEX", "FILE_TYPE_PDF"} => last.value = "SUBMISSION_TYPE_TEX"
            /\ T = {"FILE_TYPE_TEX_TEX", "FILE_TYPE_UNKNOWN"}
                  => last.value = "SUBMISSION_TYPE_UNKNOWN"
            /\ T = {} => last.value = "SUBMISSION_TYPE_UNKNOWN"

\* a TeX main file beside a file without any tag: UNKNOWN
C21_Witness ==
    /\ last.op = "get_submission_type_using_extension"
    /\ last.submission_file_list = <<{"FILE_TYPE_TEX_TEX"}, {}>>
    /\ last.value = "SUBMISSION_TYPE_UNKNOWN"

(***************************************************************************)
(* Properties of generate_submission_entry                                 *)
(***************************************************************************)
EntryReturned == last.op = "generate_submission_entry" /\ last.outcome = "return"

\* the record of the returned (key, record) pair
Record == last.value[2]
HasDiagnostics == "diagnostics" \in DOMAIN Record
Category == Record.metadata.submission_type_by_extension

\* what check_submission reports for the path and file of the call
ValidationErrors == CheckSubmission(last.file_path, last.file)

\* C22: in every record that generate_submission_entry returns, the field
\* 'diagnostics' is present if and only if check_submission reported an
\* error or the category is UNKNOWN, and its error list is then non-empty.
C22_DiagnosticsExactlyOnFailure ==
    EntryReturned =>
        /\ HasDiagnostics <=> (ValidationErrors # <<>> \/ Category = "SUBMISSION_TYPE_UNKNOWN")
        /\ HasDiagnostics => Len(Record.diagnostics.error_list) > 0

\* a valid gzip document whose members classify as UNKNOWN: the only
\* diagnostic is the classification failure
C22_Witness ==
    /\ EntryReturned
    /\ ValidationErrors = <<>>
    /\ last.file.archive_contents = <<{"FILE_TYPE_TEX_TEX"}, {}>>
    /\ HasDiagnostics
    /\ Record.diagnostics.error_list = <<"Unknown submission type">>

\* C23 as stated: for every existing file generate_submission_entry returns
\* a (key, record) pair whose diagnostics list the validation errors and
\* does not raise, also when the name of the file fails the document-name
\* grammar or its type is not allowed.
C23_ValidationProblemsNeverThrown ==
    (last.op = "generate_submission_entry" /\ last.file.is_file) =>
        /\ last.outcome = "return"
        /\ ValidationErrors # <<>> =>
              /\ HasDiagnostics
              /\ Record.diagnostics.error_list = ValidationErrors

\* C29: in every record that generate_submission_entry returns, the
\* category is UNKNOWN if and only if 'diagnostics' is present: a document
\* with a validation error is UNKNOWN whatever its content, and a document
\* classified POSTSCRIPT, PDF or TEX carries no diagnostics.
C29_UnknownExactlyWithDiagnostics ==
    EntryReturned =>
        /\ (Category = "SUBMISSION_TYPE_UNKNOWN") <=> HasDiagnostics
        /\ ValidationErrors # <<>> => Category = "SUBMISSION_TYPE_UNKNOWN"
        /\ Category \in {"SUBMISSION_TYPE_POSTSCRIPT", "SUBMISSION_TYPE_PDF",
                         "SUBMISSION_TYPE_TEX"} => ~HasDiagnostics

\* a document that get_metadata types as PDF but whose validation failed:
\* UNKNOWN, with diagnostics
C29_Witness ==
    /\ EntryReturned
    /\ last.file.file_type = "FILE_TYPE_PDF"
    /\ ValidationErrors # <<>>
    /\ Category = "SUBMISSION_TYPE_UNKNOWN"
    /\ HasDiagnostics

(***************************************************************************)
(* Properties of the shape check of import_arxiv_xml                       *)
(***************************************************************************)
\* the expected shape: the single key 'arXivSRC' holding exactly a string
\* 'timestamp' and a list 'file' of records with exactly the ten keys and
\* only string values
ExpectedShape(d) ==
    /\ DOMAIN d = {"arXivSRC"}
    /\ IsDict(d.arXivSRC)
    /\ DOMAIN d.arXivSRC = {"timestamp", "file"}
    /\ d.arXivSRC.timestamp.type = "str"
    /\ d.arXivSRC.file.type = "list"
    /\ \A i \in 1..Len(d.arXivSRC.file.val) :
          LET record == d.arXivSRC.file.val[i]
          IN  /\ IsDict(record)
              /\ DOMAIN record = ExpectedFileKeys
              /\ \A k \in ExpectedFileKeys : record[k].type = "str"

\* the file is found and is XML: the source is decoded
Decoded == Imported /\ last.source.is_file /\ last.source.is_xml_format

\* C24 as stated: whenever the decoded source does not have exactly the
\* expected shape, import_arxiv_xml fails with a type error and no entry is
\* stored.
C24_MisshapenSourceRaisesTypeError ==
    (Decoded /\ ~ExpectedShape(last.source.xml_dict)) =>
        /\ last.outcome = "TypeError"
        /\ ListKeys(manifest[last.self]) = {}

(***************************************************************************)
(* Properties of the naming functions on arguments of any type             *)
(***************************************************************************)
ParsersAndPredicates ==
    {"parse_bulk_archive_filename", "is_bulk_archive_filename",
     "parse_old_style_submission_filename",
     "parse_current_style_submission_filename",
     "is_submission_filename", "generate_url_for_submission_filename"}

\* C25: an argument that is no string (None) given to any parser or
\* predicate of Patterns raises TypeError: it never returns None or False
\* and never raises the invalid-naming ValueError; a string, however
\* malformed, never raises TypeError.
C25_NonStringRaisesTypeError ==
    last.op \in ParsersAndPredicates =>
        (last.filename.type # "str" <=> last.outcome = "TypeError")

\* None given to is_submission_filename
C25_Witness ==
    /\ last.op = "is_submission_filename"
    /\ last.filename = PyNone
    /\ last.outcome = "TypeError"

(***************************************************************************)
(* Properties of the contents after an import                              *)
(***************************************************************************)
ImportReturned == Imported /\ last.outcome = "return"

\* the base names of the records of the source of the last import
BaseNamesSeen == {GetFileBasename(Files[i].filename.val) : i \in 1..Len(Files)}

\* C26: after any sequence of imports and clears, a successful
\* import_arxiv_xml leaves contents holding exactly one entry per record of
\* the source, keyed by the base filename of the record: the key set is the
\* set of base names seen in that import, every entry is the one of its
\* record, and no entry of an earlier import survives.
C26_ContentsAreTheLastImport ==
    ImportReturned =>
        LET contents == manifest[last.self].contents
        IN  /\ DOMAIN contents = BaseNamesSeen
            /\ Cardinality(DOMAIN contents) = Len(Files)
            /\ \A i \in 1..Len(Files) :
                  LET entry == contents[GetFileBasename(Files[i].filename.val)]
                  IN  /\ entry.filename = Files[i].filename.val
                      /\ entry.hash.MD5 = Files[i].md5sum.val

\* a successful import of the changed record alone
C26_Witness ==
    /\ ImportReturned
    /\ Files = <<RecAChanged>>
    /\ DOMAIN manifest[last.self].contents = {"arXiv_src_9902_005.tar"}
    /\ manifest[last.self].contents["arXiv_src_9902_005.tar"].hash.MD5 = "md5-b"

\* C28 as stated: every entry that import_arxiv_xml stores has a filename
\* that is_bulk_archive_filename accepts; no accepted record has a yymm
\* that is not exactly four digits.
C28_StoredFilenamesAreBundleNames ==
    Imported =>
        \A key \in DOMAIN manifest[last.self].contents :
            /\ IsBulkArchiveFilename(manifest[last.self].contents[key].filename)
            /\ \A i \in 1..Len(Files) :
                  GetFileBasename(Files[i].filename.val) = key => Len(Files[i].yymm.val) = 4

(***************************************************************************)
(* Properties of the read operations of Manifest                           *)
(***************************************************************************)
ReadOperations ==
    {"list_keys", "is_newer_than", "find_new_entries", "find_updated_entries",
     "get_statistics"}

\* C27: list_keys, is_newer_than, find_new_entries, find_updated_entries and
\* get_statistics leave the metadata and contents of both snapshots
\* unchanged, whether they return or raise; only clear and import_arxiv_xml
\* change a snapshot.
C27_ReadsLeaveSnapshotsUnchanged ==
    [][/\ last'.op \in ReadOperations => manifest' = manifest
       /\ manifest' # manifest => last'.op \in {"clear", "import_arxiv_xml"}]_vars

\* a read that raised between two snapshots that hold entries
C27_Witness ==
    /\ last.op = "find_new_entries"
    /\ last.outcome = "ValueError"
    /\ \A id \in Ids : DOMAIN manifest[id].contents # {}

(***************************************************************************)
(* Properties of is_newer_than in both directions                          *)
(***************************************************************************)
\* the call of last the other way round, on the same two snapshots
Backward == IsNewerThan(manifest[last.other], manifest[last.self])
ForwardRaised == last.outcome # "return"
BackwardRaised == Backward.outcome # "return"
SameTimestamp ==
    manifest[last.self].metadata["manifest_timestamp_iso"]
        = manifest[last.other].metadata["manifest_timestamp_iso"]

\* C30: A.is_newer_than(B) raises if and only if B.is_newer_than(A) raises;
\* the two never both return True; when both return, exactly one returns
\* True unless the timestamps are equal, and then neither does.
C30_NewerThanIsAntisymmetric ==
    last.op = "is_newer_than" =>
        /\ ForwardRaised <=> BackwardRaised
        /\ (~ForwardRaised /\ ~BackwardRaised) =>
              /\ ~(last.value /\ Backward.value)
              /\ ~SameTimestamp => (last.value \/ Backward.value)
              /\ SameTimestamp => (~last.value /\ ~Backward.value)

\* a snapshot newer than the other one: True one way, False the other way
C30_Witness ==
    /\ last.op = "is_newer_than"
    /\ last.self # last.other
    /\ ~ForwardRaised /\ last.value
    /\ ~BackwardRaised /\ ~Backward.value

====
